---- MODULE Spec2Model ----
(***************************************************************************)
(* A state-machine model of pyLSV2's LSV2 client (src/pyLSV2/client.py).   *)
(*                                                                         *)
(* One step of the model is one telegram exchange of the client with the   *)
(* control (LLLSV2Com.telegram is a blocking call: the request is written  *)
(* and the response read before it returns), together with the code that   *)
(* runs between two exchanges.  pc is the position of the running call,    *)
(* stack the return positions of its callers, loc the local variables.     *)
(* The control is the environment: it answers every telegram with a        *)
(* response drawn from a small set.                                        *)
(*                                                                         *)
(* Byte strings are sequences of integers 0..255; text is the sequence of  *)
(* its code points (all text here is ASCII, so decoding keeps the codes).  *)
(***************************************************************************)
EXTENDS Integers, Sequences, FiniteSets, TLC

VARIABLES
    safe_mode,          \* constructor argument, fixed afterwards
    connected,          \* the transport's socket is open
    buffer_size,        \* self._buffer_size
    active_logins,      \* self._active_logins (a list)
    versions,           \* self._versions   (None or a dict)
    sys_par,            \* self._sys_par    (None or a dict)
    secure_file_send,   \* self._secure_file_send
    control_type,       \* self._control_type
    last_error_code,    \* self._last_error_code (None or a pair of bytes)
    pc,                 \* position of the running call; "done" when it has returned
                        \* to the user, "idle" between calls
    stack,              \* return positions of the callers
    rv,                 \* value returned by the call that just returned
    loc,                \* local variables and arguments of the running calls
    op,                 \* the API call in progress or last finished
    result,             \* what the last API call returned or raised
    wire,               \* the exchanges of the API call in progress or last finished
    last_was_error,     \* the most recent exchange received T_ER or T_BD
    last_failed,        \* most recent response a result-checking exchange rejected
    ctl,                \* the control at the other end of the connection
    local_file,         \* what the transfer in progress or last finished has
                        \* written to its local file (None: it opened none)
    file_open,          \* the transfer's local file handle is open
    remote_file,        \* the file the control has stored from an upload (None: none)
    control_levels      \* the levels the control has granted on this connection

vars == <<safe_mode, connected, buffer_size, active_logins, versions, sys_par,
          secure_file_send, control_type, last_error_code, pc, stack, rv, loc,
          op, result, wire, last_was_error, last_failed, ctl, local_file, file_open,
          remote_file, control_levels>>

files == <<local_file, file_open>>

session == <<safe_mode, connected, buffer_size, active_logins, versions, sys_par,
             secure_file_send, control_type, last_error_code, ctl>>

sess == <<session, files>>

net == <<wire, last_was_error, last_failed, remote_file, control_levels>>

---------------------------------------------------------------------------
(* Bounds of the model *)

\* longest stream of data packets the control sends in one block transfer
MaxPackets == 3

\* most calls of a second caller thread during one call of the first
MaxOtherCalls == 1

---------------------------------------------------------------------------
(* Python values *)

None == <<>>
Some(x) == <<x>>

Bool(b) == [k |-> "bool", v |-> b]
Bytes(c) == [k |-> "bytes", v |-> c]
Dict(d) == [k |-> "dict", v |-> d]
IntV(n) == [k |-> "int", v |-> n]
List(l) == [k |-> "list", v |-> l]
NoneV == [k |-> "none", v |-> <<>>]
Exc(m) == [k |-> "raise", v |-> m]
Running == [k |-> "running", v |-> <<>>]

\* Python's truth value of an object
Truthy(x) ==
    CASE x.k = "bool" -> x.v
      [] x.k = "bytes" -> Len(x.v) > 0
      [] x.k = "list" -> Len(x.v) > 0
      [] x.k = "dict" -> TRUE
      [] OTHER -> FALSE

InList(x, l) == \E i \in 1..Len(l) : l[i] = x

RECURSIVE ListRemoveFirst(_, _)
ListRemoveFirst(l, x) ==
    IF l = <<>> THEN <<>>
    ELSE IF Head(l) = x THEN Tail(l)
    ELSE <<Head(l)>> \o ListRemoveFirst(Tail(l), x)

ListRemoveNothing(l, x) == l

\* list.remove(x): drops the first occurrence of x
ListRemove(l, x) == ListRemoveFirst(l, x)

\* bytes.strip(b"\x00"): drops the NUL bytes at both ends
RECURSIVE LStripNul(_)
LStripNul(s) == IF s # <<>> /\ Head(s) = 0 THEN LStripNul(Tail(s)) ELSE s

RECURSIVE RStripNul(_)
RStripNul(s) ==
    IF s # <<>> /\ s[Len(s)] = 0 THEN RStripNul(SubSeq(s, 1, Len(s) - 1)) ELSE s

StripNul(s) == RStripNul(LStripNul(s))

---------------------------------------------------------------------------
(* Constants of the protocol (pyLSV2/const.py, as the specification lists them) *)

Login == {"INSPECT", "FILETRANSFER", "MONITOR", "DNC", "PLCDEBUG", "DATA"}

ParCCC == {"SET_BUF512", "SET_BUF1024", "SET_BUF2048", "SET_BUF3072", "SET_BUF4096",
           "SECURE_FILE_SEND", "SCREENDUMP", "RESET_TNC"}

DEFAULT_BUFFER_SIZE == 256

\* "TNC640", "TNC620", "TNC320", "TNC128", "iTNC530", "iTNC530 Programm", "CNCPILOT640"
TNC640 == <<84, 78, 67, 54, 52, 48>>
TNC620 == <<84, 78, 67, 54, 50, 48>>
TNC320 == <<84, 78, 67, 51, 50, 48>>
TNC128 == <<84, 78, 67, 49, 50, 56>>
iTNC530 == <<105, 84, 78, 67, 53, 51, 48>>
iTNC530Programm == iTNC530 \o <<32, 80, 114, 111, 103, 114, 97, 109, 109>>
CNCPILOT640 == <<67, 78, 67, 80, 73, 76, 79, 84, 54, 52, 48>>
\* "not supported"
NotSupported == <<110, 111, 116, 32, 115, 117, 112, 112, 111, 114, 116, 101, 100>>

---------------------------------------------------------------------------
(* The control *)

rsp(tag, content) == [tag |-> tag, content |-> content]

NoResponse == rsp("none", <<>>)

\* error envelopes (group, code) the control sends with T_ER
ErrContents == {<<1, 5>>, <<2, 40>>}

\* answers to a command that is acknowledged with T_OK
AckResponses == {rsp("T_OK", <<>>), rsp("T_ER", <<1, 5>>), rsp("T_BD", <<1, 5>>)}

\* answers to a read of a value: the value, no value, an error, a bad request
ReadResponses(expected, contents) ==
    {rsp(expected, c) : c \in contents \cup {<<>>}}
        \cup {rsp("T_ER", <<1, 5>>), rsp("T_BD", <<1, 5>>)}

\* the control names and declared maximal block lengths of the controls modelled
\* (faults: whether the control ever refuses a request)
Controls ==
    {[Control |-> TNC640, Max_Block_Length |-> 4096, faults |-> TRUE],
     [Control |-> iTNC530, Max_Block_Length |-> 256, faults |-> TRUE],
     [Control |-> TNC640, Max_Block_Length |-> 255, faults |-> TRUE],
     [Control |-> TNC640, Max_Block_Length |-> 4096, faults |-> FALSE]}

\* the declared block lengths around every limit of the buffer-size selection
BlockLengths ==
    {100, 255, 256, 511, 512, 1023, 1024, 2047, 2048, 3071, 3072, 4095, 4096, 5000}

\* a response that grants the request
Positive(r) ==
    /\ r.tag \notin {"T_ER", "T_BD"}
    /\ r.tag \in {"T_OK", "T_FD"} \/ r.content # <<>>

\* the responses of S the control at the other end may give
Answers(S) == IF ctl.faults THEN S ELSE {r \in S : Positive(r)}

---------------------------------------------------------------------------
(* Construction: LSV2.__init__ *)

known_logins_all == Login

known_logins ==
    IF safe_mode THEN {"INSPECT", "FILETRANSFER", "MONITOR"} ELSE Login

known_sys_cmd_all == ParCCC

known_sys_cmd ==
    IF safe_mode
    THEN {"SET_BUF1024", "SET_BUF512", "SET_BUF2048", "SET_BUF3072", "SET_BUF4096",
          "SECURE_FILE_SEND", "SCREENDUMP"}
    ELSE ParCCC

NoInfo == [x \in {} |-> <<>>]

Loc0 ==
    [login |-> "", password |-> "", force |-> FALSE, command |-> "",
     parameter |-> "", info_data |-> NoInfo, response_buffer |-> <<>>,
     cfg_control_type |-> <<>>, selected_size |-> -1, name |-> "",
     expected |-> "", payload |-> <<>>, remote_path |-> <<>>, local |-> "",
     override_file |-> FALSE, binary_mode |-> FALSE,
     local_path |-> <<>>, is_file |-> FALSE, data |-> <<>>, pos |-> 0,
     remote_directory |-> <<>>, remote_file_name |-> <<>>, part |-> 0]

InitSession ==
    /\ connected = FALSE
    /\ buffer_size = DEFAULT_BUFFER_SIZE
    /\ active_logins = <<>>
    /\ versions = None
    /\ sys_par = None
    /\ secure_file_send = FALSE
    /\ control_type = "UNKNOWN"
    /\ last_error_code = None
    /\ pc = "idle"
    /\ stack = <<>>
    /\ rv = NoneV
    /\ loc = Loc0
    /\ op = <<>>
    /\ result = NoneV
    /\ wire = <<>>
    /\ last_was_error = FALSE
    /\ last_failed = None
    /\ remote_file = None
    /\ control_levels = {}
    /\ local_file = None
    /\ file_open = FALSE

Init ==
    /\ safe_mode \in BOOLEAN
    /\ ctl \in Controls
    /\ InitSession

---------------------------------------------------------------------------
(* Calls and returns *)

\* an API call starts: only between calls, and on an open connection
\* (stk: where the call continues when the function at label returns)
BeginS(name, label, l, stk) ==
    /\ pc = "idle"
    /\ connected
    /\ pc' = label
    /\ stack' = stk
    /\ loc' = l
    /\ op' = name
    /\ result' = Running
    /\ rv' = NoneV
    /\ wire' = <<>>
    /\ UNCHANGED <<last_was_error, last_failed, remote_file, control_levels>>

Begin(name, label, l) == BeginS(name, label, l, <<>>)

\* the user has the result of the call; its record is dropped
Idle ==
    /\ pc = "done"
    /\ pc' = "idle"
    /\ op' = <<>>
    /\ result' = NoneV
    /\ wire' = <<>>
    /\ local_file' = None
    /\ UNCHANGED <<session, file_open, stack, rv, loc, last_was_error, last_failed,
                   remote_file, control_levels>>

\* call the function at label, continue at back when it returns
Call(label, back, l) ==
    /\ pc' = label
    /\ stack' = <<back>> \o stack
    /\ loc' = l
    /\ rv' = NoneV
    /\ UNCHANGED <<op, result>>

\* continue in the same function
Goto(label, l) ==
    /\ pc' = label
    /\ loc' = l
    /\ rv' = NoneV
    /\ UNCHANGED <<stack, op, result>>

\* return v to the caller, or to the user when the API call itself returns
\* (l: the locals the caller goes on with)
ReturnL(v, l) ==
    /\ UNCHANGED op
    /\ IF stack = <<>>
       THEN /\ pc' = "done"
            /\ result' = v
            /\ rv' = NoneV
            /\ loc' = Loc0
            /\ stack' = stack
       ELSE /\ pc' = Head(stack)
            /\ stack' = Tail(stack)
            /\ rv' = v
            /\ loc' = l
            /\ result' = result

Return(v) == ReturnL(v, loc)

\* an exception nobody catches unwinds every caller
Raise(m) ==
    /\ pc' = "done"
    /\ stack' = <<>>
    /\ result' = Exc(m)
    /\ rv' = NoneV
    /\ loc' = Loc0
    /\ UNCHANGED op

---------------------------------------------------------------------------
(* Transport and the three dispatch primitives *)

\* the exchanges whose response the client checks and then finds wanting:
\* those of _send_recive that await a response, and the first of a download
Rejects(via, expected, command, r) ==
    \/ via = "_send_recive" /\ expected # "" /\ r.tag # expected
    \/ via = "recive_file" /\ command = "R_FL" /\ r.tag # "S_FL"

\* the path of a payload that starts with a NUL-terminated path
RECURSIVE PathOf(_)
PathOf(payload) ==
    IF payload = <<>> \/ Head(payload) = "NUL" THEN <<>>
    ELSE <<Head(payload)>> \o PathOf(Tail(payload))

\* the control's file store: a C_FL it grants creates the file, every S_FL it
\* grants appends the payload, T_FD closes the file, a C_FD it grants for
\* the path deletes it
\* (source: the content of the local file; done: send_file reports success)
Stored(command, payload, r, ret) ==
    IF command = "C_FL" /\ r.tag = "T_OK"
    THEN Some([path |-> PathOf(payload), mode |-> payload[Len(payload)],
               data |-> <<>>, source |-> loc.data, done |-> FALSE])
    ELSE IF command = "S_FL" /\ r.tag = "T_OK" /\ remote_file # None
    THEN Some([remote_file[1] EXCEPT !.data = @ \o payload])
    ELSE IF command = "T_FD" /\ remote_file # None
    THEN Some([remote_file[1] EXCEPT !.done = Truthy(ret)])
    ELSE IF /\ command = "C_FD" /\ r.tag = "T_OK" /\ remote_file # None
            /\ remote_file[1].path = PathOf(payload)
    THEN None
    ELSE remote_file

\* the control's record of the levels it has granted on this connection: an
\* A_LG it acknowledges adds the level, an A_LO it acknowledges removes the
\* level named, or all when none is named
Granted(command, payload, r) ==
    IF command = "A_LG" /\ r.tag = "T_OK"
    THEN control_levels \cup {payload[1]}
    ELSE IF command = "A_LO" /\ r.tag = "T_OK"
    THEN (IF payload = <<>> THEN {} ELSE control_levels \ {payload[1]})
    ELSE control_levels

\* LLLSV2Com.telegram as the client uses it: one request, one response
Telegram(via, expected, command, payload, r, ret) ==
    /\ wire' = Append(wire, [via |-> via, expected |-> expected, command |-> command,
                             payload |-> payload, response |-> r.tag,
                             content |-> r.content, ret |-> ret])
    /\ last_was_error' = (r.tag \in {"T_ER", "T_BD"})
    /\ last_failed' =
           IF Rejects(via, expected, command, r)
           THEN Some([via |-> via, tag |-> r.tag, content |-> r.content])
           ELSE last_failed
    /\ remote_file' = Stored(command, payload, r, ret)
    /\ control_levels' = Granted(command, payload, r)

send_recive_keep(expected_response, r, le) ==
    IF expected_response = ""
    THEN [ret |-> Bool(TRUE), le |-> le]
    ELSE IF r.tag = expected_response
    THEN [ret |-> IF Len(r.content) > 0 THEN Bytes(r.content) ELSE Bool(TRUE),
          le |-> le]
    ELSE IF r.tag = "T_ER"
    THEN [ret |-> Bool(FALSE), le |-> r.content]
    ELSE [ret |-> Bool(FALSE), le |-> le]

send_recive_clear(expected_response, r, le) ==
    IF expected_response = ""
    THEN [ret |-> Bool(TRUE), le |-> le]
    ELSE IF r.tag = expected_response
    THEN [ret |-> IF Len(r.content) > 0 THEN Bytes(r.content) ELSE Bool(TRUE),
          le |-> None]
    ELSE IF r.tag = "T_ER"
    THEN [ret |-> Bool(FALSE), le |-> r.content]
    ELSE [ret |-> Bool(FALSE), le |-> None]

\* _send_recive: the value returned and the new _last_error_code
\* (expected "" stands for expected_response=None: no response is awaited;
\*  `response in expected_response` compares two tags of four characters)
send_recive(expected_response, r, le) ==
    IF expected_response = ""
    THEN [ret |-> Bool(TRUE), le |-> le]
    ELSE IF r.tag = expected_response
    THEN [ret |-> IF Len(r.content) > 0 THEN Bytes(r.content) ELSE Bool(TRUE),
          le |-> le]
    ELSE IF r.tag = "T_ER"
    THEN [ret |-> Bool(FALSE), le |-> r.content]
    ELSE [ret |-> Bool(FALSE), le |-> None]

send_recive_ack_lax(r) == r.tag \in {"T_OK", "T_BD"}

\* _send_recive_ack: True on T_OK
send_recive_ack(r) == r.tag = "T_OK"

---------------------------------------------------------------------------
(* Session / login manager *)

\* the A_LG / A_LO payload: the name and the password, each NUL-terminated
LoginPayload(login, password) ==
    (IF login = "" THEN <<>> ELSE <<login, "NUL">>)
        \o (IF password = "" THEN <<>> ELSE <<password, "NUL">>)

\* LSV2.login
login ==
    /\ pc = "login"
    /\ UNCHANGED <<files, safe_mode, connected, buffer_size, versions, sys_par,
                   secure_file_send, control_type, last_error_code, ctl>>
    /\ IF InList(loc.login, active_logins)
       THEN /\ Return(Bool(TRUE))
            /\ UNCHANGED <<active_logins, net>>
       ELSE IF loc.login \notin known_logins
       THEN /\ Return(Bool(FALSE))
            /\ UNCHANGED <<active_logins, net>>
       ELSE \E r \in Answers(AckResponses) :
            /\ Telegram("_send_recive_ack", "T_OK", "A_LG",
                        LoginPayload(loc.login, loc.password), r,
                        Bool(send_recive_ack(r)))
            /\ IF ~send_recive_ack(r)
               THEN /\ Return(Bool(FALSE))
                    /\ UNCHANGED active_logins
               ELSE /\ active_logins' = Append(active_logins, loc.login)
                    /\ Return(Bool(TRUE))

\* LSV2.logout (login "" stands for login=None)
logout ==
    /\ pc = "logout"
    /\ UNCHANGED <<files, safe_mode, connected, buffer_size, versions, sys_par,
                   secure_file_send, control_type, last_error_code, ctl>>
    /\ IF loc.login \in known_logins \/ loc.login = ""
       THEN IF InList(loc.login, active_logins) \/ loc.login = ""
            THEN \E r \in Answers(AckResponses) :
                 /\ Telegram("_send_recive_ack", "T_OK", "A_LO",
                             LoginPayload(loc.login, ""), r,
                             Bool(send_recive_ack(r)))
                 /\ IF send_recive_ack(r)
                    THEN /\ active_logins' =
                                IF loc.login # ""
                                THEN ListRemove(active_logins, loc.login)
                                ELSE <<>>
                         /\ Return(Bool(TRUE))
                    ELSE /\ Return(Bool(FALSE))
                         /\ UNCHANGED active_logins
            ELSE /\ Return(Bool(TRUE))
                 /\ UNCHANGED <<active_logins, net>>
       ELSE /\ Return(Bool(FALSE))
            /\ UNCHANGED <<active_logins, net>>

\* the levels and passwords the user logs in and out with
LoginArgs == {"INSPECT", "PLCDEBUG"}
Passwords == {"", "secret"}

CallLogin ==
    \E l \in LoginArgs, p \in Passwords :
        /\ Begin(<<"login", l>>, "login", [Loc0 EXCEPT !.login = l, !.password = p])
        /\ UNCHANGED sess

CallLogout ==
    \E l \in LoginArgs \cup {""} :
        /\ Begin(<<"logout", l>>, "logout", [Loc0 EXCEPT !.login = l])
        /\ UNCHANGED sess

---------------------------------------------------------------------------
(* System commands, system parameters, versions *)

\* answers to C_CC (an iTNC530 need not know SECURE_FILE_SEND)
SysCmdResponses(command) ==
    Answers(AckResponses)
        \cup (IF command = "SECURE_FILE_SEND" /\ ctl.Control = iTNC530
              THEN AckResponses ELSE {})

\* LSV2.set_system_command
set_system_command ==
    /\ pc = "set_system_command"
    /\ UNCHANGED sess
    /\ IF loc.command \in known_sys_cmd
       THEN \E r \in SysCmdResponses(loc.command) :
            /\ Telegram("_send_recive_ack", "T_OK", "C_CC",
                        <<loc.command>> \o
                            (IF loc.parameter = "" THEN <<>> ELSE <<loc.parameter, "NUL">>),
                        r, Bool(send_recive_ack(r)))
            /\ Return(Bool(send_recive_ack(r)))
       ELSE /\ Return(Bool(FALSE))
            /\ UNCHANGED net

\* the system commands the user asks for: those of ParCCC and a number
\* that is none of them; with and without a parameter
SysCmdArgs == ParCCC \cup {"9999"}

CallSetSystemCommand ==
    \E c \in SysCmdArgs, p \in {"", "TNC:\\s.bmp"} :
        /\ Begin(<<"set_system_command", c, p>>, "set_system_command",
                 [Loc0 EXCEPT !.command = c, !.parameter = p])
        /\ UNCHANGED sess

\* a 16-bit big-endian number
BE16(n) == <<n \div 256, n % 256>>

\* misc.decode_system_parameters, reduced to the field the client reads here;
\* the S_PR payload is reduced to that field, a big-endian number
decode_system_parameters(content) ==
    [Max_Block_Length |-> content[1] * 256 + content[2]]

get_system_parameter_forget ==
    /\ pc = "get_system_parameter"
    /\ UNCHANGED <<files, safe_mode, connected, buffer_size, active_logins, versions,
                   secure_file_send, control_type, ctl>>
    /\ IF sys_par # None /\ loc.force = FALSE
       THEN /\ Return(Dict(sys_par[1]))
            /\ UNCHANGED <<sys_par, last_error_code, net>>
       ELSE \E r \in Answers(ReadResponses("S_PR", {BE16(ctl.Max_Block_Length)})) :
            LET sr == send_recive("S_PR", r, last_error_code) IN
            /\ Telegram("_send_recive", "S_PR", "R_PR", <<>>, r, sr.ret)
            /\ last_error_code' = sr.le
            /\ IF Truthy(sr.ret)
               THEN IF sr.ret.k = "bytes"
                    THEN /\ sys_par' = Some(decode_system_parameters(sr.ret.v))
                         /\ Return(Dict(decode_system_parameters(sr.ret.v)))
                    ELSE /\ Raise("TypeError")
                         /\ UNCHANGED sys_par
               ELSE /\ Return(Bool(FALSE))
                    /\ sys_par' = None

\* LSV2.get_system_parameter
get_system_parameter ==
    /\ pc = "get_system_parameter"
    /\ UNCHANGED <<files, safe_mode, connected, buffer_size, active_logins, versions,
                   secure_file_send, control_type, ctl>>
    /\ IF sys_par # None /\ loc.force = FALSE
       THEN /\ Return(Dict(sys_par[1]))
            /\ UNCHANGED <<sys_par, last_error_code, net>>
       ELSE \E r \in Answers(ReadResponses("S_PR", {BE16(ctl.Max_Block_Length)})) :
            LET sr == send_recive("S_PR", r, last_error_code) IN
            /\ Telegram("_send_recive", "S_PR", "R_PR", <<>>, r, sr.ret)
            /\ last_error_code' = sr.le
            /\ IF Truthy(sr.ret)
               THEN IF sr.ret.k = "bytes"
                    THEN /\ sys_par' = Some(decode_system_parameters(sr.ret.v))
                         /\ Return(Dict(decode_system_parameters(sr.ret.v)))
                    ELSE /\ Raise("TypeError")  \* the payload to decode is True
                         /\ UNCHANGED sys_par
               ELSE /\ Return(Bool(FALSE))
                    /\ UNCHANGED sys_par

\* LSV2.is_itnc
is_itnc == control_type = "MILL_OLD"

\* an answer to R_VR: the text NUL-terminated, or an error
VersionResponses(text) == {rsp("S_VR", text \o <<0>>), rsp("T_ER", <<1, 5>>)}

\* one `result = self._send_recive(CMD.R_VR, ...); if result: info_data[key] = ...`
\* of get_versions (a result that is True has no strip method)
ReadVersion(selector, key, responses, next) ==
    /\ UNCHANGED <<files, safe_mode, connected, buffer_size, active_logins, versions,
                   sys_par, secure_file_send, control_type, ctl>>
    /\ \E r \in Answers(responses) :
       LET sr == send_recive("S_VR", r, last_error_code) IN
       /\ Telegram("_send_recive", "S_VR", "R_VR", <<selector>>, r, sr.ret)
       /\ last_error_code' = sr.le
       /\ IF Truthy(sr.ret)
          THEN IF sr.ret.k = "bytes"
               THEN Goto(next, [loc EXCEPT
                                  !.info_data = (key :> StripNul(sr.ret.v)) @@ @])
               ELSE Raise("AttributeError")
          ELSE Goto(next, loc)

\* LSV2.get_versions, up to the read of the control name
get_versions ==
    /\ pc = "get_versions"
    /\ UNCHANGED <<files, safe_mode, connected, buffer_size, active_logins, versions,
                   sys_par, secure_file_send, control_type, ctl>>
    /\ IF versions # None /\ loc.force = FALSE
       THEN /\ Return(Dict(versions[1]))
            /\ UNCHANGED <<last_error_code, net>>
       ELSE \E r \in Answers(ReadResponses("S_VR", {ctl.Control \o <<0>>})) :
            LET sr == send_recive("S_VR", r, last_error_code) IN
            /\ Telegram("_send_recive", "S_VR", "R_VR", <<"CONTROL">>, r, sr.ret)
            /\ last_error_code' = sr.le
            /\ IF Truthy(sr.ret)
               THEN IF sr.ret.k = "bytes"
                    THEN Goto("gv_nc", [loc EXCEPT
                                  !.info_data = ("Control" :> StripNul(sr.ret.v))])
                    ELSE Raise("AttributeError")
               ELSE Raise("Could not read version information from control")

gv_nc ==
    /\ pc = "gv_nc"
    /\ ReadVersion("NC_VERSION", "NC_Version", {rsp("S_VR", <<49, 0>>)}, "gv_plc")

gv_plc ==
    /\ pc = "gv_plc"
    /\ ReadVersion("PLC_VERSION", "PLC_Version", {rsp("S_VR", <<50, 0>>)}, "gv_options")

gv_options ==
    /\ pc = "gv_options"
    /\ ReadVersion("OPTIONS", "Options", {rsp("S_VR", <<51, 0>>)}, "gv_id")

gv_id ==
    /\ pc = "gv_id"
    /\ ReadVersion("ID", "ID", {rsp("S_VR", <<52, 0>>)}, "gv_release")

gv_release ==
    /\ pc = "gv_release"
    /\ IF is_itnc
       THEN /\ Goto("gv_splc", [loc EXCEPT
                                  !.info_data = ("Release_Type" :> NotSupported) @@ @])
            /\ UNCHANGED <<sess, net>>
       ELSE ReadVersion("RELEASE_TYPE", "Release_Type", VersionResponses(<<53>>),
                        "gv_splc")

\* the end of get_versions: the read of the SPLC version, and the cache
gv_splc ==
    /\ pc = "gv_splc"
    /\ UNCHANGED <<files, safe_mode, connected, buffer_size, active_logins,
                   sys_par, secure_file_send, control_type, ctl>>
    /\ \E r \in Answers(VersionResponses(<<54>>)) :
       LET sr == send_recive("S_VR", r, last_error_code)
           info_data ==
               ("SPLC_Version" :>
                    IF Truthy(sr.ret) THEN StripNul(sr.ret.v) ELSE NotSupported)
                   @@ loc.info_data
       IN
       /\ Telegram("_send_recive", "S_VR", "R_VR", <<"SPLC_VERSION">>, r, sr.ret)
       /\ last_error_code' = sr.le
       /\ versions' = Some(info_data)
       /\ ReturnL(Dict(info_data), [loc EXCEPT !.info_data = NoInfo])

CallGetVersions ==
    \E f \in BOOLEAN :
        /\ Begin(<<"get_versions", f>>, "get_versions", [Loc0 EXCEPT !.force = f])
        /\ UNCHANGED sess

CallGetSystemParameter ==
    \E f \in BOOLEAN :
        /\ Begin(<<"get_system_parameter", f>>, "get_system_parameter",
                 [Loc0 EXCEPT !.force = f])
        /\ UNCHANGED sess

---------------------------------------------------------------------------
(* Connection configurator *)

\* the control type _configure_connection derives from the control name
ControlTypeOf(name) ==
    IF name \in {TNC640, TNC620, TNC320, TNC128} THEN "MILL_NEW"
    ELSE IF name \in {iTNC530, iTNC530Programm} THEN "MILL_OLD"
    ELSE IF name \in {CNCPILOT640} THEN "LATHE_NEW"
    ELSE "MILL_NEW"

SelectBuffer_gt(max_block_length) ==
    IF max_block_length > 4096
    THEN [size |-> 4096, command |-> "SET_BUF4096"]
    ELSE IF 3072 <= max_block_length /\ max_block_length <= 4096
    THEN [size |-> 3072, command |-> "SET_BUF3072"]
    ELSE IF 2048 <= max_block_length /\ max_block_length < 3072
    THEN [size |-> 2048, command |-> "SET_BUF2048"]
    ELSE IF 1024 <= max_block_length /\ max_block_length < 2048
    THEN [size |-> 1024, command |-> "SET_BUF1024"]
    ELSE IF 512 <= max_block_length /\ max_block_length < 1024
    THEN [size |-> 512, command |-> "SET_BUF512"]
    ELSE IF 256 <= max_block_length /\ max_block_length < 512
    THEN [size |-> 256, command |-> ""]
    ELSE [size |-> -1, command |-> ""]

SelectBuffer_up(max_block_length) ==
    IF max_block_length >= 4096
    THEN [size |-> 4096, command |-> "SET_BUF4096"]
    ELSE IF 3072 <= max_block_length /\ max_block_length < 4096
    THEN [size |-> 3072, command |-> "SET_BUF3072"]
    ELSE IF 2048 <= max_block_length /\ max_block_length < 3072
    THEN [size |-> 2048, command |-> "SET_BUF2048"]
    ELSE IF 1024 <= max_block_length /\ max_block_length < 2048
    THEN [size |-> 1024, command |-> "SET_BUF1024"]
    ELSE IF 256 <= max_block_length /\ max_block_length < 1024
    THEN [size |-> 512, command |-> "SET_BUF512"]
    ELSE [size |-> -1, command |-> ""]

SelectBuffer_skip(max_block_length) ==
    IF max_block_length >= 4096
    THEN [size |-> 4096, command |-> "SET_BUF4096"]
    ELSE IF 2048 <= max_block_length /\ max_block_length < 4096
    THEN [size |-> 2048, command |-> "SET_BUF2048"]
    ELSE IF 1024 <= max_block_length /\ max_block_length < 2048
    THEN [size |-> 1024, command |-> "SET_BUF1024"]
    ELSE IF 512 <= max_block_length /\ max_block_length < 1024
    THEN [size |-> 512, command |-> "SET_BUF512"]
    ELSE IF 256 <= max_block_length /\ max_block_length < 512
    THEN [size |-> 256, command |-> ""]
    ELSE [size |-> -1, command |-> ""]

\* the buffer size and set-buffer command _configure_connection selects
\* (size -1: none, the handshake raises; command "": none is needed)
SelectBuffer(max_block_length) ==
    IF max_block_length >= 4096
    THEN [size |-> 4096, command |-> "SET_BUF4096"]
    ELSE IF 3072 <= max_block_length /\ max_block_length < 4096
    THEN [size |-> 3072, command |-> "SET_BUF3072"]
    ELSE IF 2048 <= max_block_length /\ max_block_length < 3072
    THEN [size |-> 2048, command |-> "SET_BUF2048"]
    ELSE IF 1024 <= max_block_length /\ max_block_length < 2048
    THEN [size |-> 1024, command |-> "SET_BUF1024"]
    ELSE IF 512 <= max_block_length /\ max_block_length < 1024
    THEN [size |-> 512, command |-> "SET_BUF512"]
    ELSE IF 256 <= max_block_length /\ max_block_length < 512
    THEN [size |-> 256, command |-> ""]
    ELSE [size |-> -1, command |-> ""]

\* LSV2.connect: the socket opens, _configure_connection starts with login(INSPECT)
connect ==
    /\ pc = "idle"
    /\ ~connected
    /\ connected' = TRUE
    /\ op' = <<"connect">>
    /\ result' = Running
    /\ wire' = <<>>
    /\ pc' = "login"
    /\ stack' = <<"cfg_versions">>
    /\ loc' = [Loc0 EXCEPT !.login = "INSPECT"]
    /\ rv' = NoneV
    /\ UNCHANGED <<files, safe_mode, buffer_size, active_logins, versions, sys_par,
                   secure_file_send, control_type, last_error_code, ctl,
                   last_was_error, last_failed, remote_file>>
    /\ control_levels' = {}

\* control_type = self.get_versions()["Control"]
cfg_versions ==
    /\ pc = "cfg_versions"
    /\ Call("get_versions", "cfg_syspar", [loc EXCEPT !.force = FALSE])
    /\ UNCHANGED <<sess, net>>

\* max_block_length = self.get_system_parameter()["Max_Block_Length"]
cfg_syspar ==
    /\ pc = "cfg_syspar"
    /\ Call("get_system_parameter", "cfg_select",
            [loc EXCEPT !.cfg_control_type = rv.v["Control"], !.force = FALSE])
    /\ UNCHANGED <<sess, net>>

\* the control type and the choice of the buffer size
cfg_select ==
    /\ pc = "cfg_select"
    /\ UNCHANGED <<files, safe_mode, connected, active_logins, versions, sys_par,
                   secure_file_send, last_error_code, ctl, net>>
    /\ IF rv.k # "dict"
       THEN /\ Raise("TypeError")  \* False["Max_Block_Length"]
            /\ UNCHANGED <<control_type, buffer_size>>
       ELSE LET sel == SelectBuffer(rv.v.Max_Block_Length) IN
            /\ control_type' = ControlTypeOf(loc.cfg_control_type)
            /\ IF sel.size = -1
               THEN /\ Raise("unknown buffer size")
                    /\ UNCHANGED buffer_size
               ELSE IF sel.command = ""
               THEN /\ buffer_size' = sel.size
                    /\ Call("set_system_command", "cfg_secure",
                            [loc EXCEPT !.command = "SECURE_FILE_SEND"])
               ELSE /\ UNCHANGED buffer_size
                    /\ Call("set_system_command", "cfg_bufset",
                            [loc EXCEPT !.command = sel.command,
                                        !.selected_size = sel.size])

cfg_bufset_lax ==
    /\ pc = "cfg_bufset"
    /\ UNCHANGED <<files, safe_mode, connected, active_logins, versions, sys_par,
                   secure_file_send, control_type, last_error_code, ctl, net>>
    /\ buffer_size' = loc.selected_size
    /\ Call("set_system_command", "cfg_secure",
            [loc EXCEPT !.command = "SECURE_FILE_SEND"])

\* the answer to the set-buffer command
cfg_bufset ==
    /\ pc = "cfg_bufset"
    /\ UNCHANGED <<files, safe_mode, connected, active_logins, versions, sys_par,
                   secure_file_send, control_type, last_error_code, ctl, net>>
    /\ IF Truthy(rv)
       THEN /\ buffer_size' = loc.selected_size
            /\ Call("set_system_command", "cfg_secure",
                    [loc EXCEPT !.command = "SECURE_FILE_SEND"])
       ELSE /\ Raise("error in communication while setting buffer size")
            /\ UNCHANGED buffer_size

cfg_secure_always ==
    /\ pc = "cfg_secure"
    /\ secure_file_send' = TRUE
    /\ Call("login", "cfg_done", [loc EXCEPT !.login = "FILETRANSFER", !.password = ""])
    /\ UNCHANGED <<files, safe_mode, connected, buffer_size, active_logins, versions,
                   sys_par, control_type, last_error_code, ctl, net>>

\* the answer to the secure-file-send command, then login(FILETRANSFER)
cfg_secure ==
    /\ pc = "cfg_secure"
    /\ secure_file_send' = Truthy(rv)
    /\ Call("login", "cfg_done", [loc EXCEPT !.login = "FILETRANSFER", !.password = ""])
    /\ UNCHANGED <<files, safe_mode, connected, buffer_size, active_logins, versions,
                   sys_par, control_type, last_error_code, ctl, net>>

cfg_done ==
    /\ pc = "cfg_done"
    /\ Return(NoneV)
    /\ UNCHANGED <<sess, net>>

\* LSV2.disconnect: logout(login=None), then the socket closes
disconnect ==
    /\ BeginS(<<"disconnect">>, "logout", Loc0, <<"disc_close">>)
    /\ UNCHANGED sess

disc_close ==
    /\ pc = "disc_close"
    /\ connected' = FALSE
    /\ Return(NoneV)
    /\ UNCHANGED <<files, safe_mode, buffer_size, active_logins, versions, sys_par,
                   secure_file_send, control_type, last_error_code, ctl, net>>

---------------------------------------------------------------------------
(* Block read and the operations built on the three primitives *)

\* the packets of a directory listing: an attribute byte and a name
Entries == {<<0, 97>>, <<32, 98>>}

\* answers of the control during a block read: a data packet (at most MaxPackets
\* in one transfer), the end of the transfer, an error, a bad request
BlockResponses(expected, received) ==
    {rsp("T_FD", <<>>), rsp("T_ER", <<1, 5>>), rsp("T_BD", <<1, 5>>)}
        \cup (IF received < MaxPackets THEN {rsp(expected, e) : e \in Entries} ELSE {})

BufferPrepend(buffer, content) == <<content>> \o buffer

\* response_buffer.append(content)
BufferAppend(buffer, content) == Append(buffer, content)

\* _send_recive_block: the command and its first response
send_recive_block ==
    /\ pc = "_send_recive_block"
    /\ UNCHANGED sess
    /\ \E r \in Answers(BlockResponses(loc.expected, 0)) :
       /\ Telegram("_send_recive_block", loc.expected, loc.command, loc.payload,
                   r, NoneV)
       /\ IF r.tag = "T_ER"
          THEN ReturnL(List(<<>>), [loc EXCEPT !.response_buffer = <<>>])
          ELSE IF r.tag = "T_FD"
          THEN ReturnL(List(<<>>), [loc EXCEPT !.response_buffer = <<>>])
          ELSE IF r.tag # loc.expected
          THEN Raise("received unexpected response")
          ELSE Goto("srb_loop",
                    [loc EXCEPT !.response_buffer = BufferAppend(<<>>, r.content)])

srb_loop_lax ==
    /\ pc = "srb_loop"
    /\ UNCHANGED sess
    /\ \E r \in Answers(BlockResponses(loc.expected, Len(loc.response_buffer))) :
       /\ Telegram("_send_recive_block", loc.expected, "T_OK", <<>>, r, NoneV)
       /\ IF r.tag = loc.expected \/ r.tag = "T_BD"
          THEN Goto("srb_loop",
                    [loc EXCEPT !.response_buffer = BufferAppend(@, r.content)])
          ELSE ReturnL(List(loc.response_buffer),
                       [loc EXCEPT !.response_buffer = <<>>])

\* _send_recive_block: `while response in expected_response`, entered with a
\* data packet just appended: a bare T_OK pulls the next response
srb_loop ==
    /\ pc = "srb_loop"
    /\ UNCHANGED sess
    /\ \E r \in Answers(BlockResponses(loc.expected, Len(loc.response_buffer))) :
       /\ Telegram("_send_recive_block", loc.expected, "T_OK", <<>>, r, NoneV)
       /\ IF r.tag = loc.expected
          THEN Goto("srb_loop",
                    [loc EXCEPT !.response_buffer = BufferAppend(@, r.content)])
          ELSE ReturnL(List(loc.response_buffer),
                       [loc EXCEPT !.response_buffer = <<>>])

\* misc.decode_file_system_info, reduced to the attribute byte and the name
decode_file_system_info(entry, ct) ==
    [Name |-> Tail(entry), attributes |-> Head(entry), control_type |-> ct]

\* LSV2.get_directory_content
CallGetDirectoryContent ==
    /\ BeginS(<<"get_directory_content">>, "_send_recive_block",
              [Loc0 EXCEPT !.command = "R_DR", !.expected = "S_DR",
                           !.payload = <<"SINGLE">>],
              <<"gdc_decode">>)
    /\ UNCHANGED sess

\* get_directory_content: every packet of the block read is decoded
gdc_decode ==
    /\ pc = "gdc_decode"
    /\ Return(List([i \in 1..Len(rv.v) |->
                        decode_file_system_info(rv.v[i], control_type)]))
    /\ UNCHANGED <<sess, net>>

\* str.replace("/", PATH_SEP) of a path, given as its sequence of names,
\* separators and extension
PathSep(path) == [i \in 1..Len(path) |-> IF path[i] = "/" THEN "\\" ELSE path[i]]

\* the paths the user names
Paths == {<<"TNC:", "/", "a">>, <<"TNC:", "\\", "a">>}

\* LSV2.change_directory
CallChangeDirectory ==
    \E d \in Paths :
        /\ Begin(<<"change_directory", d>>, "change_directory",
                 [Loc0 EXCEPT !.payload = d])
        /\ UNCHANGED sess

change_directory ==
    /\ pc = "change_directory"
    /\ UNCHANGED sess
    /\ \E r \in Answers(AckResponses) :
       /\ Telegram("_send_recive_ack", "T_OK", "C_DC",
                   PathSep(loc.payload) \o <<"NUL">>, r, Bool(send_recive_ack(r)))
       /\ Return(Bool(send_recive_ack(r)))

\* bytes.rstrip(b"\x00")
MachineParameterValue(content) == RStripNul(content)

\* LSV2.get_machine_parameter
CallGetMachineParameter ==
    /\ Begin(<<"get_machine_parameter">>, "get_machine_parameter",
             [Loc0 EXCEPT !.name = "CfgName"])
    /\ UNCHANGED sess

get_machine_parameter ==
    /\ pc = "get_machine_parameter"
    /\ UNCHANGED <<files, safe_mode, connected, buffer_size, active_logins, versions,
                   sys_par, secure_file_send, control_type, ctl>>
    /\ \E r \in Answers({rsp("S_MC", <<55, 0>>), rsp("S_MC", <<>>), rsp("T_BD", <<1, 5>>)}
                   \cup {rsp("T_ER", e) : e \in ErrContents}) :
       LET sr == send_recive("S_MC", r, last_error_code) IN
       /\ Telegram("_send_recive", "S_MC", "R_MC", <<loc.name, "NUL">>, r, sr.ret)
       /\ last_error_code' = sr.le
       /\ IF Truthy(sr.ret)
          THEN IF sr.ret.k = "bytes"
               THEN Return(Bytes(MachineParameterValue(sr.ret.v)))
               ELSE Raise("AttributeError")  \* True has no rstrip
          ELSE Return(Bool(FALSE))

\* LSV2.set_machine_parameter
CallSetMachineParameter ==
    \E d \in BOOLEAN :
        /\ Begin(<<"set_machine_parameter", d>>, "set_machine_parameter",
                 [Loc0 EXCEPT !.name = "CfgName", !.parameter = "1", !.force = d])
        /\ UNCHANGED sess

set_machine_parameter ==
    /\ pc = "set_machine_parameter"
    /\ UNCHANGED <<files, safe_mode, connected, buffer_size, active_logins, versions,
                   sys_par, secure_file_send, control_type, ctl>>
    /\ \E r \in Answers({rsp("T_OK", <<>>), rsp("T_BD", <<1, 5>>)}
                   \cup {rsp("T_ER", e) : e \in ErrContents}) :
       LET sr == send_recive("T_OK", r, last_error_code) IN
       /\ Telegram("_send_recive", "T_OK", "C_MC",
                   <<IF loc.force THEN "0" ELSE "1", loc.name, "NUL",
                     loc.parameter, "NUL">>, r, sr.ret)
       /\ last_error_code' = sr.le
       /\ IF Truthy(sr.ret) THEN Return(Bool(TRUE)) ELSE Return(Bool(FALSE))

---------------------------------------------------------------------------
(* Download *)

\* const.BIN_FILES: the extensions of the known binary formats
BIN_FILES == {".bmp", ".bak", ".zip"}

\* misc.is_file_binary
is_file_binary(path) == path # <<>> /\ path[Len(path)] \in BIN_FILES

\* the remote files the user names, and what is at the local path
RemoteFiles == {<<"TNC:", "/", "a", ".h">>, <<"TNC:", "/", "a", ".bmp">>}
\* (with override_file, which only matters when there is a file)
LocalPaths == {<<"absent", FALSE>>, <<"file", FALSE>>, <<"file", TRUE>>, <<"dir", FALSE>>}

\* the S_FL payloads of the control
Chunks == {<<65, 0, 66, 0>>, <<67>>}

\* bytes.replace(b"\x00", b"\r\n")
RECURSIVE ReplaceNul(_)
ReplaceNul(content) ==
    IF content = <<>> THEN <<>>
    ELSE IF Len(content) = 1
    THEN (IF content[1] = 0 THEN <<13, 10>> ELSE content)
    ELSE ReplaceNul(SubSeq(content, 1, Len(content) \div 2))
             \o ReplaceNul(SubSeq(content, Len(content) \div 2 + 1, Len(content)))

WrittenRaw(binary_mode, content) == content

\* what recive_file writes for one S_FL payload
Written(binary_mode, content) ==
    IF binary_mode THEN content ELSE ReplaceNul(content)

\* LSV2.get_file_info (a result that is True cannot be decoded)
get_file_info ==
    /\ pc = "get_file_info"
    /\ UNCHANGED <<files, safe_mode, connected, buffer_size, active_logins, versions,
                   sys_par, secure_file_send, control_type, ctl>>
    /\ \E r \in Answers(ReadResponses("S_FI", {<<0, 97>>})) :
       LET sr == send_recive("S_FI", r, last_error_code) IN
       /\ Telegram("_send_recive", "S_FI", "R_FI",
                   PathSep(loc.remote_path) \o <<"NUL">>, r, sr.ret)
       /\ last_error_code' = sr.le
       /\ IF Truthy(sr.ret)
          THEN IF sr.ret.k = "bytes"
               THEN Return(Dict(decode_file_system_info(sr.ret.v, control_type)))
               ELSE Raise("TypeError")
          ELSE Return(Bool(FALSE))

\* LSV2.recive_file starts with get_file_info(remote_path)
CallReciveFile ==
    \E f \in RemoteFiles, l \in LocalPaths, b \in BOOLEAN :
        /\ BeginS(<<"recive_file", f, l[1], l[2], b>>, "get_file_info",
                  [Loc0 EXCEPT !.remote_path = PathSep(f), !.local = l[1],
                               !.override_file = l[2], !.binary_mode = b],
                  <<"rf_request">>)
        /\ UNCHANGED sess

\* LSV2.recive_file of the file the control has stored
CallReciveUploaded ==
    \E l \in LocalPaths, b \in BOOLEAN :
        /\ remote_file # None
        /\ BeginS(<<"recive_file", remote_file[1].path, l[1], l[2], b>>,
                  "get_file_info",
                  [Loc0 EXCEPT !.remote_path = PathSep(remote_file[1].path),
                               !.local = l[1], !.override_file = l[2],
                               !.binary_mode = b],
                  <<"rf_request">>)
        /\ UNCHANGED sess

\* answers to R_FL and to the T_OK that pulls the next packet
FileResponses(received) ==
    {rsp("T_FD", <<>>), rsp("T_BD", <<1, 5>>)}
        \cup {rsp("T_ER", e) : e \in ErrContents}
        \cup (IF received < MaxPackets THEN {rsp("S_FL", c) : c \in Chunks} ELSE {})

\* sequences of bytes, concatenated
RECURSIVE Concat(_)
Concat(ss) == IF ss = <<>> THEN <<>> ELSE Head(ss) \o Concat(Tail(ss))

\* the control sends the file it has stored for the path, in packets of
\* buffer_size - 10 bytes and then T_FD (received: the packets sent so far);
\* a file without content is a packet without content, or T_FD at once
StoredResponses(path, received) ==
    IF remote_file = None THEN {}
    ELSE IF remote_file[1].path # path THEN {}
    ELSE LET data == remote_file[1].data
             pos == Len(Concat(received))
         IN IF pos > Len(data) THEN {}
            ELSE IF Concat(received) # SubSeq(data, 1, pos) THEN {}
            ELSE IF pos < Len(data)
            THEN {rsp("S_FL", SubSeq(data, pos + 1,
                                     IF pos + buffer_size - 10 < Len(data)
                                     THEN pos + buffer_size - 10 ELSE Len(data)))}
            ELSE {rsp("T_FD", <<>>)}
                     \cup (IF received = <<>> THEN {rsp("S_FL", <<>>)} ELSE {})

\* the answers of the control during a download
FileAnswers(path, received) ==
    IF StoredResponses(path, received) # {}
    THEN StoredResponses(path, received)
    ELSE Answers(FileResponses(Len(received)))

\* recive_file from the checks of the two paths to the first response:
\* the request R_FL, then the local file is opened for writing; when that
\* fails (the path is a directory) the response is not looked at
rf_request ==
    /\ pc = "rf_request"
    /\ UNCHANGED <<safe_mode, connected, buffer_size, active_logins, versions,
                   sys_par, secure_file_send, control_type, ctl>>
    /\ IF ~Truthy(rv)
       THEN /\ Return(Bool(FALSE))
            /\ UNCHANGED <<files, last_error_code, net>>
       ELSE IF loc.local = "file" /\ ~loc.override_file
       THEN /\ Return(Bool(FALSE))
            /\ UNCHANGED <<files, last_error_code, net>>
       ELSE \E r \in FileAnswers(loc.remote_path, <<>>) :
            /\ Telegram(IF loc.local = "dir" THEN "telegram" ELSE "recive_file",
                        "S_FL", "R_FL",
                        loc.remote_path \o <<"NUL">> \o
                            <<IF loc.binary_mode \/ is_file_binary(loc.remote_path)
                              THEN "MODE_BINARY" ELSE "0x00">>,
                        r, NoneV)
            /\ IF loc.local = "dir"
               THEN /\ Raise("IsADirectoryError")
                    /\ UNCHANGED <<files, last_error_code>>
               ELSE IF r.tag = "S_FL"
               THEN /\ local_file' = Some(Written(loc.binary_mode, r.content))
                    /\ file_open' = TRUE
                    /\ Goto("rf_loop", [loc EXCEPT !.response_buffer = <<r.content>>])
                    /\ UNCHANGED last_error_code
               ELSE /\ local_file' = Some(<<>>)
                    /\ file_open' = FALSE
                    /\ last_error_code' =
                           IF r.tag = "T_ER" \/ r.tag = "T_BD"
                           THEN r.content ELSE None
                    /\ Return(Bool(FALSE))

rf_loop_leak ==
    /\ pc = "rf_loop"
    /\ UNCHANGED session
    /\ \E r \in FileAnswers(loc.remote_path, loc.response_buffer) :
       /\ Telegram("recive_file", "S_FL", "T_OK", <<>>, r, NoneV)
       /\ IF r.tag = "S_FL"
          THEN /\ local_file' =
                      Some(local_file[1] \o Written(loc.binary_mode, r.content))
               /\ file_open' = TRUE
               /\ Goto("rf_loop", [loc EXCEPT !.response_buffer = Append(@, r.content)])
          ELSE IF r.tag = "T_FD"
          THEN /\ file_open' = FALSE
               /\ UNCHANGED local_file
               /\ Return(Bool(TRUE))
          ELSE /\ file_open' = TRUE
               /\ UNCHANGED local_file
               /\ Return(Bool(FALSE))

\* recive_file: a bare T_OK pulls the next packet until T_FD
\* (response_buffer: the payloads received so far)
rf_loop ==
    /\ pc = "rf_loop"
    /\ UNCHANGED session
    /\ \E r \in FileAnswers(loc.remote_path, loc.response_buffer) :
       /\ Telegram("recive_file", "S_FL", "T_OK", <<>>, r, NoneV)
       /\ IF r.tag = "S_FL"
          THEN /\ local_file' =
                      Some(local_file[1] \o Written(loc.binary_mode, r.content))
               /\ file_open' = TRUE
               /\ Goto("rf_loop", [loc EXCEPT !.response_buffer = Append(@, r.content)])
          ELSE IF r.tag = "T_FD"
          THEN /\ file_open' = FALSE
               /\ UNCHANGED local_file
               /\ Return(Bool(TRUE))
          ELSE /\ file_open' = FALSE
               /\ UNCHANGED local_file
               /\ Return(Bool(FALSE))

---------------------------------------------------------------------------
(* Directories and the upload *)

\* the position of the last separator of a path (0: it has none)
RECURSIVE LastSep(_)
LastSep(p) ==
    IF p = <<>> THEN 0
    ELSE IF p[Len(p)] = "\\" THEN Len(p)
    ELSE LastSep(SubSeq(p, 1, Len(p) - 1))

\* str.rstrip(PATH_SEP)
RECURSIVE RStripSep(_)
RStripSep(p) ==
    IF p # <<>> /\ p[Len(p)] = "\\" THEN RStripSep(SubSeq(p, 1, Len(p) - 1)) ELSE p

\* misc.decode_directory_info, reduced to the NUL-terminated path
decode_directory_info(content) == [Path |-> PathOf(content)]

\* LSV2.get_directory_info(remote_directory) called by send_file: the
\* directory is changed first when one is given (<<>> stands for None) and the
\* outcome of that is only logged; then R_DI is sent
CallGetDirectoryInfo(remote_directory, back, l) ==
    /\ pc' = IF remote_directory # <<>> THEN "change_directory" ELSE "gdi_read"
    /\ stack' = (IF remote_directory # <<>> THEN <<"gdi_read">> ELSE <<>>)
                    \o <<back>> \o stack
    /\ loc' = [l EXCEPT !.payload = remote_directory]
    /\ rv' = NoneV
    /\ UNCHANGED <<op, result>>

\* get_directory_info: R_DI (a result that is True cannot be decoded)
gdi_read ==
    /\ pc = "gdi_read"
    /\ UNCHANGED <<files, safe_mode, connected, buffer_size, active_logins, versions,
                   sys_par, secure_file_send, control_type, ctl>>
    /\ \E r \in Answers(ReadResponses("S_DI", {<<"TNC:", "\\", "NUL">>})) :
       LET sr == send_recive("S_DI", r, last_error_code) IN
       /\ Telegram("_send_recive", "S_DI", "R_DI", <<>>, r, sr.ret)
       /\ last_error_code' = sr.le
       /\ IF Truthy(sr.ret)
          THEN IF sr.ret.k = "bytes"
               THEN Return(Dict(decode_directory_info(sr.ret.v)))
               ELSE Raise("TypeError")
          ELSE Return(Bool(FALSE))

\* str.split(PATH_SEP) of a directory path, and the path of its first i parts,
\* each followed by a separator
Parts(p) == SelectSeq(p, LAMBDA t : t # "\\")

RECURSIVE PathToCheck(_, _)
PathToCheck(parts, i) ==
    IF i = 0 THEN <<>> ELSE PathToCheck(parts, i - 1) \o <<parts[i], "\\">>

\* LSV2.make_directory: the loop over the parts of the path (loc.part: the
\* part at hand); get_file_info tells whether the prefix exists
md_next ==
    /\ pc = "md_next"
    /\ UNCHANGED <<sess, net>>
    /\ IF loc.part > Len(Parts(loc.remote_directory))
       THEN Return(Bool(TRUE))
       ELSE Call("get_file_info", "md_info",
                 [loc EXCEPT !.remote_path =
                                 PathToCheck(Parts(loc.remote_directory), loc.part)])

\* make_directory: C_DM for a prefix that get_file_info found missing
md_info ==
    /\ pc = "md_info"
    /\ UNCHANGED sess
    /\ IF rv.k = "bool" /\ rv.v = FALSE
       THEN \E r \in Answers(AckResponses) :
            /\ Telegram("_send_recive_ack", "T_OK", "C_DM",
                        loc.remote_path \o <<"NUL">>, r, Bool(send_recive_ack(r)))
            /\ IF send_recive_ack(r)
               THEN Goto("md_next", [loc EXCEPT !.part = @ + 1])
               ELSE Raise("an error occurred while creating directory")
       ELSE /\ Goto("md_next", [loc EXCEPT !.part = @ + 1])
            /\ UNCHANGED net

\* LSV2.delete_file
delete_file ==
    /\ pc = "delete_file"
    /\ UNCHANGED sess
    /\ \E r \in Answers(AckResponses) :
       /\ Telegram("_send_recive_ack", "T_OK", "C_FD",
                   PathSep(loc.remote_path) \o <<"NUL">>, r, Bool(send_recive_ack(r)))
       /\ Return(Bool(send_recive_ack(r)))

\* the content of a local file of n bytes
FileData(n) == [i \in 1..n |-> i % 7]

\* the lengths of the local files: none, one chunk, one byte more, three chunks
FileLengths == {0, 246, 247, 493}

\* the uploads the user asks for: the local path and whether a file is there,
\* its content, the remote path, override_file, binary_mode
UploadArgs ==
    [local_path : {<<"p", ".bmp">>}, is_file : {TRUE},
     data : {FileData(n) : n \in FileLengths},
     remote_path : {<<"TNC:", "/", "a", ".bmp">>},
     override_file : {TRUE}, binary_mode : BOOLEAN]
    \cup
    [local_path : {<<"p", ".h">>}, is_file : BOOLEAN, data : {FileData(247)},
     remote_path : {<<"TNC:", "/", "a", ".h">>, <<"a", ".h">>, <<"TNC:", "/">>},
     override_file : BOOLEAN, binary_mode : {TRUE}]

\* remote_directory + PATH_SEP + remote_file_name
RemoteFilePath(l) == l.remote_directory \o <<"\\">> \o l.remote_file_name

\* LSV2.send_file (the control stores one file: the user uploads until the
\* control has granted a C_FL)
CallSendFile ==
    \E a \in UploadArgs :
        /\ remote_file = None
        /\ Begin(<<"send_file", a>>, "send_file",
                 [Loc0 EXCEPT !.local_path = a.local_path, !.is_file = a.is_file,
                              !.data = a.data, !.remote_path = a.remote_path,
                              !.override_file = a.override_file,
                              !.binary_mode = a.binary_mode])
        /\ UNCHANGED sess

\* send_file up to its first exchange: the local file must be there; the
\* remote path is split into directory and name.  (rstrip(remote_file_name)
\* strips the characters of the name; it stops at the separator before it.)
send_file ==
    /\ pc = "send_file"
    /\ UNCHANGED <<sess, net>>
    /\ LET p == PathSep(loc.remote_path)
           k == LastSep(p)
       IN IF ~loc.is_file
          THEN Raise("local file does not exist")
          ELSE IF k > 0
          THEN IF k = Len(p)
               THEN CallGetDirectoryInfo(RStripSep(p), "sf_dir_checked",
                        [loc EXCEPT !.remote_file_name = loc.local_path,
                                    !.remote_directory = RStripSep(p)])
               ELSE Call("change_directory", "sf_cd",
                        [loc EXCEPT !.remote_file_name = SubSeq(p, k + 1, Len(p)),
                                    !.remote_directory = SubSeq(p, 1, k),
                                    !.payload = SubSeq(p, 1, k)])
          ELSE CallGetDirectoryInfo(<<>>, "sf_pwd",
                        [loc EXCEPT !.remote_file_name = p])

\* send_file: the directory of the remote path could not be entered, or
\* get_directory_info(remote_directory) is next
sf_cd ==
    /\ pc = "sf_cd"
    /\ UNCHANGED <<sess, net>>
    /\ IF ~Truthy(rv)
       THEN Raise("could not open the source directory")
       ELSE CallGetDirectoryInfo(RStripSep(loc.remote_directory), "sf_dir_checked",
                [loc EXCEPT !.remote_directory = RStripSep(@)])

\* send_file: remote_directory = self.get_directory_info()["Path"]
sf_pwd ==
    /\ pc = "sf_pwd"
    /\ UNCHANGED <<sess, net>>
    /\ IF rv.k # "dict"
       THEN Raise("TypeError")
       ELSE CallGetDirectoryInfo(RStripSep(rv.v.Path), "sf_dir_checked",
                [loc EXCEPT !.remote_directory = RStripSep(rv.v.Path)])

\* send_file: the directory is created when no information about it came
sf_dir_checked ==
    /\ pc = "sf_dir_checked"
    /\ UNCHANGED <<sess, net>>
    /\ IF ~Truthy(rv)
       THEN Call("md_next", "sf_made", [loc EXCEPT !.part = 1])
       ELSE Call("get_file_info", "sf_info",
                 [loc EXCEPT !.remote_path = RemoteFilePath(loc)])

\* send_file: make_directory has returned
sf_made ==
    /\ pc = "sf_made"
    /\ UNCHANGED <<sess, net>>
    /\ Call("get_file_info", "sf_info", [loc EXCEPT !.remote_path = RemoteFilePath(loc)])

ChunkSizeFull(buffer_size_) == buffer_size_

\* the bytes of one S_FL telegram: self._buffer_size - 10
ChunkSize(buffer_size_) == buffer_size_ - 10

\* input_buffer.read(n) at position pos
Read(data, pos, n) ==
    SubSeq(data, pos + 1, IF pos + n < Len(data) THEN pos + n ELSE Len(data))

\* send_file: C_FL with the remote path and the mode byte; when it is granted
\* the local file is opened and its first chunk read
sf_request ==
    /\ UNCHANGED <<session, local_file>>
    /\ \E r \in Answers(AckResponses) :
       /\ Telegram("send_file", "T_OK", "C_FL",
                   RemoteFilePath(loc) \o <<"NUL">> \o
                       <<IF loc.binary_mode \/ is_file_binary(loc.local_path)
                         THEN "MODE_BINARY" ELSE "0x00">>,
                   r, NoneV)
       /\ IF r.tag = "T_OK"
          THEN /\ file_open' = (loc.data # <<>>)
               /\ Goto(IF loc.data # <<>> THEN "sf_chunk" ELSE "sf_end",
                       [loc EXCEPT !.pos = 0])
          ELSE /\ file_open' = FALSE
               /\ Return(Bool(FALSE))

\* send_file: the remote file exists (it is deleted with override_file, else
\* the upload is refused) or the upload starts
sf_info ==
    /\ pc = "sf_info"
    /\ IF Truthy(rv)
       THEN /\ UNCHANGED <<sess, net>>
            /\ IF loc.override_file
               THEN Call("delete_file", "sf_deleted", loc)
               ELSE Return(Bool(FALSE))
       ELSE sf_request

sf_deleted_lax ==
    /\ pc = "sf_deleted"
    /\ sf_request

\* send_file: the remote file was deleted, or could not be
sf_deleted ==
    /\ pc = "sf_deleted"
    /\ IF ~Truthy(rv)
       THEN /\ UNCHANGED <<sess, net>>
            /\ Raise("something went wrong while deleting file")
       ELSE sf_request

\* send_file: one chunk as S_FL; the next read follows its acknowledgement
sf_chunk ==
    /\ pc = "sf_chunk"
    /\ UNCHANGED <<session, local_file>>
    /\ LET buffer == Read(loc.data, loc.pos, ChunkSize(buffer_size)) IN
       \E r \in Answers(AckResponses) :
       /\ Telegram("send_file", "T_OK", "S_FL", buffer, r, NoneV)
       /\ IF r.tag = "T_OK"
          THEN LET more == loc.pos + Len(buffer) < Len(loc.data) IN
               /\ file_open' = more
               /\ Goto(IF more THEN "sf_chunk" ELSE "sf_end",
                       [loc EXCEPT !.pos = @ + Len(buffer)])
          ELSE /\ file_open' = FALSE
               /\ Return(Bool(FALSE))

EndOfDataBlind(secure) == ""

\* the response send_file awaits for T_FD ("": expected_response=None)
EndOfDataExpected(secure) == IF secure THEN "T_OK" ELSE ""

\* send_file: T_FD signals that no more data is being sent
sf_end ==
    /\ pc = "sf_end"
    /\ UNCHANGED <<files, safe_mode, connected, buffer_size, active_logins, versions,
                   sys_par, secure_file_send, control_type, ctl>>
    /\ LET expected == EndOfDataExpected(secure_file_send) IN
       \E r \in (IF expected = "" THEN {NoResponse}
                 ELSE Answers({rsp("T_OK", <<>>), rsp("T_BD", <<1, 5>>)}
                              \cup {rsp("T_ER", e) : e \in ErrContents})) :
       LET sr == send_recive(expected, r, last_error_code) IN
       /\ Telegram("_send_recive", expected, "T_FD", <<>>, r, sr.ret)
       /\ last_error_code' = sr.le
       /\ Return(Bool(Truthy(sr.ret)))

---------------------------------------------------------------------------
(* Error enumeration *)

\* LSV2Err.T_ER_NO_NEXT_ERROR
T_ER_NO_NEXT_ERROR == 51

\* the S_RI payloads of the control: group, number, text, NUL
ErrorMessages == {<<1, 7, 69, 0>>, <<2, 9, 70, 71, 0>>}

\* misc.decode_error_message, reduced to the code pair and the text
decode_error_message(content) ==
    [Group |-> content[1], Number |-> content[2],
     Text |-> RStripNul(SubSeq(content, 3, Len(content)))]

\* answers to R_RI FIRST_ERROR / NEXT_ERROR: a message (at most MaxPackets in
\* one enumeration), no further error, and what a control that refuses sends
ErrorResponses(received) ==
    {rsp("T_ER", <<1, T_ER_NO_NEXT_ERROR>>)}
        \cup (IF received < MaxPackets THEN {rsp("S_RI", m) : m \in ErrorMessages}
              ELSE {})
        \cup (IF ctl.faults
              THEN {rsp("T_ER", <<1, 5>>), rsp("T_BD", <<1, 5>>), rsp("S_RI", <<>>)}
              ELSE {})

\* LSV2.get_error_messages starts with login(DNC), whatever it returns
CallGetErrorMessages ==
    /\ BeginS(<<"get_error_messages">>, "login", [Loc0 EXCEPT !.login = "DNC"],
              <<"gem_first">>)
    /\ UNCHANGED sess

gem_end_first_strict(le) ==
    IF le = None THEN Exc("TypeError") ELSE Bool(FALSE)

\* get_error_messages when FIRST_ERROR was not answered with a message:
\* self._last_error_code[1] is compared with the sentinel
gem_end_first(le) ==
    IF le = None THEN Exc("TypeError")
    ELSE IF le[2] = T_ER_NO_NEXT_ERROR THEN List(<<>>)
    ELSE Bool(FALSE)

\* get_error_messages when the loop has ended: the same subscript, then the
\* messages are returned whatever the code is
gem_end_next(le, messages) ==
    IF le = None THEN Exc("TypeError") ELSE List(messages)

\* get_error_messages: R_RI FIRST_ERROR
\* (decode_error_message of the result True, an S_RI without payload, fails)
gem_first ==
    /\ pc = "gem_first"
    /\ UNCHANGED <<files, safe_mode, connected, buffer_size, active_logins, versions,
                   sys_par, secure_file_send, control_type, ctl>>
    /\ \E r \in ErrorResponses(0) :
       LET sr == send_recive("S_RI", r, last_error_code) IN
       /\ Telegram("_send_recive", "S_RI", "R_RI", <<"FIRST_ERROR">>, r, sr.ret)
       /\ last_error_code' = sr.le
       /\ IF Truthy(sr.ret)
          THEN IF sr.ret.k = "bytes"
               THEN Goto("gem_next", [loc EXCEPT !.response_buffer =
                                          <<decode_error_message(sr.ret.v)>>])
               ELSE Raise("TypeError")
          ELSE IF gem_end_first(sr.le).k = "raise"
               THEN Raise(gem_end_first(sr.le).v)
               ELSE Return(gem_end_first(sr.le))

\* get_error_messages: R_RI NEXT_ERROR, as long as a message is the answer
gem_next ==
    /\ pc = "gem_next"
    /\ UNCHANGED <<files, safe_mode, connected, buffer_size, active_logins, versions,
                   sys_par, secure_file_send, control_type, ctl>>
    /\ \E r \in ErrorResponses(Len(loc.response_buffer)) :
       LET sr == send_recive("S_RI", r, last_error_code) IN
       /\ Telegram("_send_recive", "S_RI", "R_RI", <<"NEXT_ERROR">>, r, sr.ret)
       /\ last_error_code' = sr.le
       /\ IF Truthy(sr.ret)
          THEN IF sr.ret.k = "bytes"
               THEN Goto("gem_next", [loc EXCEPT !.response_buffer =
                                          Append(@, decode_error_message(sr.ret.v))])
               ELSE Raise("TypeError")
          ELSE IF gem_end_next(sr.le, loc.response_buffer).k = "raise"
               THEN Raise(gem_end_next(sr.le, loc.response_buffer).v)
               ELSE ReturnL(gem_end_next(sr.le, loc.response_buffer),
                            [loc EXCEPT !.response_buffer = <<>>])

---------------------------------------------------------------------------
(* PLC memory *)

\* the memory types read here (the other types of MemoryType follow the
\* pattern of MARKER or WORD), and a value that is none of them
MemoryTypes == {"MARKER", "WORD", "DWORD", "STRING"}

\* the fields of the system parameters that describe the PLC memory of the
\* control; the S_PR payload is reduced to the maximal block length, these
\* fields are the same for every control modelled
PlcParameters ==
    [Marker_Start |-> 0, Markers |-> 300, Word_Start |-> 1000, Words |-> 300,
     String_Start |-> 2000, Strings |-> 3, String_Length |-> 4]

\* start_address, max_count (times 4, as Words / 4 is not a whole number in
\* general) and mem_byte_count of a memory type
MemoryLayout(mem_type) ==
    CASE mem_type = "MARKER" ->
             [start_address |-> PlcParameters.Marker_Start,
              max_count4 |-> PlcParameters.Markers * 4, mem_byte_count |-> 1]
      [] mem_type = "WORD" ->
             [start_address |-> PlcParameters.Word_Start,
              max_count4 |-> PlcParameters.Words * 4, mem_byte_count |-> 2]
      [] mem_type = "DWORD" ->
             [start_address |-> PlcParameters.Word_Start,
              max_count4 |-> PlcParameters.Words, mem_byte_count |-> 4]
      [] mem_type = "STRING" ->
             [start_address |-> PlcParameters.String_Start,
              max_count4 |-> PlcParameters.Strings * 4,
              mem_byte_count |-> PlcParameters.String_Length]

\* struct.pack("!L", n)
BE32(n) ==
    <<n \div 16777216, (n \div 65536) % 256, (n \div 256) % 256, n % 256>>

\* the address as the interface description states it: address counts elements
AddressScaled(start_address, address, mem_byte_count) ==
    start_address + address * mem_byte_count

\* the address of a read of a type other than STRING: start_address + address
AddressOf(start_address, address, mem_byte_count) == start_address + address

\* the address of the i-th request of a STRING read, after
\* address = address + (count - 1) * mem_byte_count
StringAddressOf(start_address, address, mem_byte_count, count, i) ==
    start_address + (address + (count - 1) * mem_byte_count) + i * mem_byte_count

\* struct.unpack of one element: "!?", "<H" and "<L" (little-endian)
RECURSIVE LittleEndian(_)
LittleEndian(bytes) ==
    IF bytes = <<>> THEN 0 ELSE Head(bytes) + 256 * LittleEndian(Tail(bytes))

UnpackValue(mem_type, bytes) ==
    IF mem_type = "MARKER" THEN (IF bytes[1] # 0 THEN 1 ELSE 0)
    ELSE LittleEndian(bytes)

\* the values of a payload, one per mem_byte_count bytes
UnpackValues(mem_type, bytes, mem_byte_count) ==
    [k \in 1..(Len(bytes) \div mem_byte_count) |->
        UnpackValue(mem_type,
                    SubSeq(bytes, (k - 1) * mem_byte_count + 1, k * mem_byte_count))]

\* the payload the control sends for a read of n bytes
MemoryContent(n) == [i \in 1..n |-> IF i % 4 = 0 THEN 0 ELSE 65]

\* the reads the user asks for
PlcAddresses == {0, 3}
PlcCounts == {1, 2, 128, 256, 301}

\* LSV2.read_plc_memory: the system parameters are read when they are not
\* cached; login(PLCDEBUG) follows, whatever both return
CallReadPlcMemory ==
    \E address \in PlcAddresses, mem_type \in MemoryTypes \cup {"NONE"},
       count \in PlcCounts :
        /\ IF sys_par = None
           THEN BeginS(<<"read_plc_memory", address, mem_type, count>>,
                       "get_system_parameter", [Loc0 EXCEPT !.force = FALSE],
                       <<"rpm_login">>)
           ELSE BeginS(<<"read_plc_memory", address, mem_type, count>>,
                       "login", [Loc0 EXCEPT !.login = "PLCDEBUG"],
                       <<"read_plc_memory">>)
        /\ UNCHANGED sess

\* read_plc_memory: self.login(login=Login.PLCDEBUG)
rpm_login ==
    /\ pc = "rpm_login"
    /\ Call("login", "read_plc_memory", [loc EXCEPT !.login = "PLCDEBUG"])
    /\ UNCHANGED <<sess, net>>

\* read_plc_memory after the login: the layout of the memory type, the two
\* checks of count, and for a type other than STRING the one R_MB exchange
\* (struct.pack("!B", n) raises for n above 255)
read_plc_memory ==
    /\ pc = "read_plc_memory"
    /\ UNCHANGED <<files, safe_mode, connected, buffer_size, active_logins, versions,
                   sys_par, secure_file_send, control_type, ctl>>
    /\ LET address == op[2]
           mem_type == op[3]
           count == op[4]
       IN IF sys_par = None
          THEN Raise("TypeError") /\ UNCHANGED <<last_error_code, net>>
          ELSE IF mem_type \notin MemoryTypes
          THEN Raise("unknown address type") /\ UNCHANGED <<last_error_code, net>>
          ELSE LET m == MemoryLayout(mem_type) IN
          IF count * 4 > m.max_count4
          THEN Raise("maximum number of values") /\ UNCHANGED <<last_error_code, net>>
          ELSE IF count > 255
          THEN Raise("can't read more than 255 elements at a time")
               /\ UNCHANGED <<last_error_code, net>>
          ELSE IF mem_type = "STRING"
          THEN /\ Goto("rpm_string", [loc EXCEPT !.part = 0, !.response_buffer = <<>>])
               /\ UNCHANGED <<last_error_code, net>>
          ELSE IF count * m.mem_byte_count > 255
          THEN Raise("struct.error") /\ UNCHANGED <<last_error_code, net>>
          ELSE \E r \in Answers(ReadResponses("S_MB",
                                   {MemoryContent(count * m.mem_byte_count)})) :
               LET sr == send_recive("S_MB", r, last_error_code) IN
               /\ Telegram("_send_recive", "S_MB", "R_MB",
                           BE32(AddressOf(m.start_address, address, m.mem_byte_count))
                               \o <<count * m.mem_byte_count>>,
                           r, sr.ret)
               /\ last_error_code' = sr.le
               /\ IF Truthy(sr.ret)
                  THEN IF sr.ret.k = "bytes"
                       THEN Return(List(UnpackValues(mem_type, sr.ret.v,
                                                     m.mem_byte_count)))
                       ELSE Raise("TypeError")  \* len(True)
                  ELSE Return(Bool(FALSE))

\* read_plc_memory, the loop of a STRING read: one R_MB per element (loc.part:
\* the index i)
rpm_string ==
    /\ pc = "rpm_string"
    /\ UNCHANGED <<files, safe_mode, connected, buffer_size, active_logins, versions,
                   sys_par, secure_file_send, control_type, ctl>>
    /\ LET address == op[2]
           count == op[4]
           m == MemoryLayout("STRING")
       IN \E r \in Answers(ReadResponses("S_MB", {MemoryContent(m.mem_byte_count)})) :
          LET sr == send_recive("S_MB", r, last_error_code) IN
          /\ Telegram("_send_recive", "S_MB", "R_MB",
                      BE32(StringAddressOf(m.start_address, address, m.mem_byte_count,
                                           count, loc.part))
                          \o <<m.mem_byte_count>>,
                      r, sr.ret)
          /\ last_error_code' = sr.le
          /\ IF Truthy(sr.ret)
             THEN IF sr.ret.k = "bytes"
                  THEN LET plc_values ==
                               Append(loc.response_buffer, RStripNul(sr.ret.v))
                       IN IF loc.part + 1 < count
                          THEN Goto("rpm_string",
                                    [loc EXCEPT !.part = @ + 1,
                                                !.response_buffer = plc_values])
                          ELSE ReturnL(List(plc_values),
                                       [loc EXCEPT !.response_buffer = <<>>])
                  ELSE Raise("TypeError")  \* struct.unpack of True
             ELSE Return(Bool(FALSE))

---------------------------------------------------------------------------
(* Status readers and keyboard operations *)

\* the S_RI payload of a status read, reduced to one 16-bit number
StatusContents == {<<0, 1>>}

\* every status reader starts with login(DNC), whatever it returns, and goes
\* on with the R_RI exchange for its selector of ParRRI
CallStatus(name, selector) ==
    /\ BeginS(<<name>>, "login",
              [Loc0 EXCEPT !.login = "DNC", !.name = name, !.parameter = selector],
              <<"read_status">>)
    /\ UNCHANGED sess

\* LSV2.get_program_status
CallGetProgramStatus == CallStatus("get_program_status", "PGM_STATE")

\* LSV2.get_program_stack
CallGetProgramStack == CallStatus("get_program_stack", "SELECTED_PGM")

\* LSV2.get_execution_status
CallGetExecutionStatus == CallStatus("get_execution_status", "EXEC_STATE")

\* LSV2.get_spindle_tool_status
CallGetSpindleToolStatus == CallStatus("get_spindle_tool_status", "CURRENT_TOOL")

\* LSV2.get_override_info
CallGetOverrideInfo == CallStatus("get_override_info", "OVERRIDE")

\* LSV2.get_axes_location
CallGetAxesLocation == CallStatus("get_axes_location", "AXIS_LOCATION")

\* what a reader makes of a payload: struct.unpack("!H", result)[0] for the
\* program and the execution state; the records of the other readers are
\* reduced to the payload they are decoded from
StatusValue(name, content) ==
    IF name \in {"get_program_status", "get_execution_status"}
    THEN IntV(content[1] * 256 + content[2])
    ELSE Dict([payload |-> content])

\* the R_RI exchange of a status reader and its result: the decoded payload,
\* or False when nothing came (the result True, an S_RI without payload,
\* cannot be decoded)
read_status ==
    /\ pc = "read_status"
    /\ UNCHANGED <<files, safe_mode, connected, buffer_size, active_logins, versions,
                   sys_par, secure_file_send, control_type, ctl>>
    /\ \E r \in Answers(ReadResponses("S_RI", StatusContents)) :
       LET sr == send_recive("S_RI", r, last_error_code) IN
       /\ Telegram("_send_recive", "S_RI", "R_RI", <<loc.parameter>>, r, sr.ret)
       /\ last_error_code' = sr.le
       /\ IF Truthy(sr.ret)
          THEN IF sr.ret.k = "bytes"
               THEN Return(StatusValue(loc.name, sr.ret.v))
               ELSE Raise("TypeError")
          ELSE Return(Bool(FALSE))

\* LSV2.set_keyboard_access starts with login(MONITOR)
CallSetKeyboardAccess ==
    \E unlocked \in BOOLEAN :
        /\ BeginS(<<"set_keyboard_access", unlocked>>, "login",
                  [Loc0 EXCEPT !.login = "MONITOR",
                               !.payload = <<IF unlocked THEN 0 ELSE 1>>],
                  <<"set_keyboard_access">>)
        /\ UNCHANGED sess

set_keyboard_access_lax ==
    /\ pc = "set_keyboard_access"
    /\ UNCHANGED <<files, safe_mode, connected, buffer_size, active_logins, versions,
                   sys_par, secure_file_send, control_type, ctl>>
    /\ \E r \in Answers(AckResponses) :
       LET sr == send_recive("T_OK", r, last_error_code) IN
       /\ Telegram("_send_recive", "T_OK", "C_LK", loc.payload, r, sr.ret)
       /\ last_error_code' = sr.le
       /\ Return(Bool(Truthy(sr.ret)))

\* set_keyboard_access after the login: False when it failed, else C_LK with
\* one byte, 0x00 to unlock and 0x01 to lock
set_keyboard_access ==
    /\ pc = "set_keyboard_access"
    /\ UNCHANGED <<files, safe_mode, connected, buffer_size, active_logins, versions,
                   sys_par, secure_file_send, control_type, ctl>>
    /\ IF ~Truthy(rv)
       THEN /\ Return(Bool(FALSE))
            /\ UNCHANGED <<last_error_code, net>>
       ELSE \E r \in Answers(AckResponses) :
            LET sr == send_recive("T_OK", r, last_error_code) IN
            /\ Telegram("_send_recive", "T_OK", "C_LK", loc.payload, r, sr.ret)
            /\ last_error_code' = sr.le
            /\ Return(Bool(Truthy(sr.ret)))

\* the key codes the user sends
KeyCodes == {1, 300}

\* LSV2.send_key_code starts with login(MONITOR)
CallSendKeyCode ==
    \E key_code \in KeyCodes :
        /\ BeginS(<<"send_key_code", key_code>>, "login",
                  [Loc0 EXCEPT !.login = "MONITOR", !.payload = BE16(key_code)],
                  <<"send_key_code">>)
        /\ UNCHANGED sess

\* send_key_code after the login: False when it failed, else C_EK with the
\* key code as a 16-bit number
send_key_code ==
    /\ pc = "send_key_code"
    /\ UNCHANGED <<files, safe_mode, connected, buffer_size, active_logins, versions,
                   sys_par, secure_file_send, control_type, ctl>>
    /\ IF ~Truthy(rv)
       THEN /\ Return(Bool(FALSE))
            /\ UNCHANGED <<last_error_code, net>>
       ELSE \E r \in Answers(AckResponses) :
            LET sr == send_recive("T_OK", r, last_error_code) IN
            /\ Telegram("_send_recive", "T_OK", "C_EK", loc.payload, r, sr.ret)
            /\ last_error_code' = sr.le
            /\ Return(Bool(Truthy(sr.ret)))

---------------------------------------------------------------------------

Next ==
    \/ Idle
    \/ connect
    \/ cfg_versions
    \/ cfg_syspar
    \/ cfg_select
    \/ cfg_bufset
    \/ cfg_secure
    \/ cfg_done
    \/ disconnect
    \/ disc_close
    \/ CallLogin
    \/ login
    \/ CallLogout
    \/ logout
    \/ set_system_command
    \/ CallGetSystemParameter
    \/ get_system_parameter
    \/ CallGetVersions
    \/ get_versions
    \/ gv_nc
    \/ gv_plc
    \/ gv_options
    \/ gv_id
    \/ gv_release
    \/ gv_splc
    \/ CallGetDirectoryContent
    \/ send_recive_block
    \/ srb_loop
    \/ gdc_decode
    \/ CallChangeDirectory
    \/ change_directory
    \/ CallGetMachineParameter
    \/ get_machine_parameter
    \/ CallSetMachineParameter
    \/ set_machine_parameter

Spec == Init /\ [][Next]_vars

\* The handshake alone, against controls of every declared block length:
\* the user connects, disconnects, and re-reads the two cached records.
InitHandshake ==
    /\ safe_mode = TRUE
    /\ ctl \in [Control : {TNC640, iTNC530}, Max_Block_Length : BlockLengths,
                faults : {TRUE}]
    /\ InitSession

NextHandshake ==
    \/ Idle
    \/ connect
    \/ cfg_versions
    \/ cfg_syspar
    \/ cfg_select
    \/ cfg_bufset
    \/ cfg_secure
    \/ cfg_done
    \/ disconnect
    \/ disc_close
    \/ login
    \/ logout
    \/ set_system_command
    \/ CallGetSystemParameter
    \/ get_system_parameter
    \/ CallGetVersions
    \/ get_versions
    \/ gv_nc
    \/ gv_plc
    \/ gv_options
    \/ gv_id
    \/ gv_release
    \/ gv_splc

SpecHandshake == InitHandshake /\ [][NextHandshake]_vars

\* The three dispatch primitives and the download, after a handshake: the
\* user connects and then reads a machine parameter, changes the directory,
\* lists it and downloads files.
InitTransfer ==
    /\ safe_mode = TRUE
    /\ ctl \in {[Control |-> TNC640, Max_Block_Length |-> 4096, faults |-> TRUE],
                [Control |-> TNC640, Max_Block_Length |-> 4096, faults |-> FALSE]}
    /\ InitSession

NextTransfer ==
    \/ Idle
    \/ connect
    \/ cfg_versions
    \/ cfg_syspar
    \/ cfg_select
    \/ cfg_bufset
    \/ cfg_secure
    \/ cfg_done
    \/ login
    \/ set_system_command
    \/ get_system_parameter
    \/ get_versions
    \/ gv_nc
    \/ gv_plc
    \/ gv_options
    \/ gv_id
    \/ gv_release
    \/ gv_splc
    \/ CallGetDirectoryContent
    \/ send_recive_block
    \/ srb_loop
    \/ gdc_decode
    \/ CallChangeDirectory
    \/ change_directory
    \/ CallGetMachineParameter
    \/ get_machine_parameter
    \/ CallReciveFile
    \/ get_file_info
    \/ rf_request
    \/ rf_loop

SpecTransfer == InitTransfer /\ [][NextTransfer]_vars

\* System commands and the error enumeration, after a handshake, with safe
\* mode on and off.
InitCommands ==
    /\ safe_mode \in BOOLEAN
    /\ ctl \in {[Control |-> TNC640, Max_Block_Length |-> 4096, faults |-> TRUE],
                [Control |-> TNC640, Max_Block_Length |-> 4096, faults |-> FALSE]}
    /\ InitSession

NextCommands ==
    \/ Idle
    \/ connect
    \/ cfg_versions
    \/ cfg_syspar
    \/ cfg_select
    \/ cfg_bufset
    \/ cfg_secure
    \/ cfg_done
    \/ login
    \/ CallLogout
    \/ logout
    \/ set_system_command
    \/ get_system_parameter
    \/ get_versions
    \/ gv_nc
    \/ gv_plc
    \/ gv_options
    \/ gv_id
    \/ gv_release
    \/ gv_splc
    \/ CallSetSystemCommand
    \/ CallGetErrorMessages
    \/ gem_first
    \/ gem_next

SpecCommands == InitCommands /\ [][NextCommands]_vars

\* The status readers and the keyboard operations, after a handshake, with
\* safe mode on and off.
InitStatus ==
    /\ safe_mode \in BOOLEAN
    /\ ctl \in {[Control |-> TNC640, Max_Block_Length |-> 4096, faults |-> TRUE],
                [Control |-> TNC640, Max_Block_Length |-> 4096, faults |-> FALSE]}
    /\ InitSession

NextStatus ==
    \/ Idle
    \/ connect
    \/ cfg_versions
    \/ cfg_syspar
    \/ cfg_select
    \/ cfg_bufset
    \/ cfg_secure
    \/ cfg_done
    \/ login
    \/ CallLogout
    \/ logout
    \/ set_system_command
    \/ get_system_parameter
    \/ get_versions
    \/ gv_nc
    \/ gv_plc
    \/ gv_options
    \/ gv_id
    \/ gv_release
    \/ gv_splc
    \/ CallGetProgramStatus
    \/ CallGetProgramStack
    \/ CallGetExecutionStatus
    \/ CallGetSpindleToolStatus
    \/ CallGetOverrideInfo
    \/ CallGetAxesLocation
    \/ read_status
    \/ CallGetErrorMessages
    \/ gem_first
    \/ gem_next
    \/ CallSetKeyboardAccess
    \/ set_keyboard_access
    \/ CallSendKeyCode
    \/ send_key_code

SpecStatus == InitStatus /\ [][NextStatus]_vars

\* Reads of the PLC memory, after a handshake, with safe mode on and off.
InitPlc ==
    /\ safe_mode \in BOOLEAN
    /\ ctl \in {[Control |-> TNC640, Max_Block_Length |-> 4096, faults |-> TRUE],
                [Control |-> TNC640, Max_Block_Length |-> 4096, faults |-> FALSE]}
    /\ InitSession

NextPlc ==
    \/ Idle
    \/ connect
    \/ cfg_versions
    \/ cfg_syspar
    \/ cfg_select
    \/ cfg_bufset
    \/ cfg_secure
    \/ cfg_done
    \/ login
    \/ set_system_command
    \/ get_system_parameter
    \/ get_versions
    \/ gv_nc
    \/ gv_plc
    \/ gv_options
    \/ gv_id
    \/ gv_release
    \/ gv_splc
    \/ CallReadPlcMemory
    \/ rpm_login
    \/ read_plc_memory
    \/ rpm_string

SpecPlc == InitPlc /\ [][NextPlc]_vars

\* a control that has granted every request so far starts to refuse some
ControlFails ==
    /\ pc = "idle"
    /\ connected
    /\ ~ctl.faults
    /\ ctl' = [ctl EXCEPT !.faults = TRUE]
    /\ UNCHANGED <<files, safe_mode, connected, buffer_size, active_logins, versions,
                   sys_par, secure_file_send, control_type, last_error_code,
                   pc, stack, rv, loc, op, result, net>>

\* LSV2.change_directory called by a second thread on the same client.  No
\* method of the client takes a lock, so the call runs whenever the thread is
\* scheduled, also between two exchanges of the call the first thread is in.
\* (The exchange itself is taken to be atomic.)
change_directory_other ==
    \E d \in Paths, r \in Answers(AckResponses) :
        /\ connected
        /\ Cardinality({i \in 1..Len(wire) : wire[i].via = "caller2"}) < MaxOtherCalls
        /\ Telegram("caller2", "T_OK", "C_DC", PathSep(d) \o <<"NUL">>, r,
                    Bool(send_recive_ack(r)))
        /\ UNCHANGED <<sess, pc, stack, rv, loc, op, result>>

\* Two caller threads: one connects and lists directories, the other
\* changes the directory.
InitConcurrent ==
    /\ safe_mode = TRUE
    /\ ctl \in {[Control |-> TNC640, Max_Block_Length |-> 4096, faults |-> TRUE],
                [Control |-> TNC640, Max_Block_Length |-> 4096, faults |-> FALSE]}
    /\ InitSession

NextConcurrent ==
    \/ Idle
    \/ connect
    \/ cfg_versions
    \/ cfg_syspar
    \/ cfg_select
    \/ cfg_bufset
    \/ cfg_secure
    \/ cfg_done
    \/ login
    \/ set_system_command
    \/ get_system_parameter
    \/ get_versions
    \/ gv_nc
    \/ gv_plc
    \/ gv_options
    \/ gv_id
    \/ gv_release
    \/ gv_splc
    \/ CallGetDirectoryContent
    \/ send_recive_block
    \/ srb_loop
    \/ gdc_decode
    \/ change_directory_other

SpecConcurrent == InitConcurrent /\ [][NextConcurrent]_vars

\* Upload and download after a handshake that the control grants (but for
\* SECURE_FILE_SEND on an iTNC530).
InitUpload ==
    /\ safe_mode = TRUE
    /\ ctl \in {[Control |-> TNC640, Max_Block_Length |-> 256, faults |-> FALSE],
                [Control |-> iTNC530, Max_Block_Length |-> 256, faults |-> FALSE]}
    /\ InitSession

NextUpload ==
    \/ Idle
    \/ connect
    \/ cfg_versions
    \/ cfg_syspar
    \/ cfg_select
    \/ cfg_secure
    \/ cfg_done
    \/ login
    \/ set_system_command
    \/ get_system_parameter
    \/ get_versions
    \/ gv_nc
    \/ gv_plc
    \/ gv_options
    \/ gv_id
    \/ gv_release
    \/ gv_splc
    \/ change_directory
    \/ get_file_info
    \/ gdi_read
    \/ md_next
    \/ md_info
    \/ delete_file
    \/ CallSendFile
    \/ send_file
    \/ sf_cd
    \/ sf_pwd
    \/ sf_dir_checked
    \/ sf_made
    \/ sf_info
    \/ sf_deleted
    \/ sf_chunk
    \/ sf_end
    \/ CallReciveUploaded
    \/ rf_request
    \/ rf_loop
    \/ ControlFails

SpecUpload == InitUpload /\ [][NextUpload]_vars

\* Upload and download together: the files of the control and the uploaded
\* one are downloaded, and the control may refuse at any exchange once it
\* has started to fail.
InitFiles == InitUpload

NextFiles ==
    \/ Idle
    \/ connect
    \/ cfg_versions
    \/ cfg_syspar
    \/ cfg_select
    \/ cfg_secure
    \/ cfg_done
    \/ login
    \/ set_system_command
    \/ get_system_parameter
    \/ get_versions
    \/ gv_nc
    \/ gv_plc
    \/ gv_options
    \/ gv_id
    \/ gv_release
    \/ gv_splc
    \/ change_directory
    \/ get_file_info
    \/ gdi_read
    \/ md_next
    \/ md_info
    \/ delete_file
    \/ CallSendFile
    \/ send_file
    \/ sf_cd
    \/ sf_pwd
    \/ sf_dir_checked
    \/ sf_made
    \/ sf_info
    \/ sf_deleted
    \/ sf_chunk
    \/ sf_end
    \/ CallReciveUploaded
    \/ CallReciveFile
    \/ rf_request
    \/ rf_loop
    \/ ControlFails

SpecFiles == InitFiles /\ [][NextFiles]_vars

\* The two pull loops, after a handshake: the user lists the directory and
\* downloads files.  A call that is inside a loop goes on running: the next
\* pull is sent and answered (weak fairness of the two loop steps).
InitPull ==
    /\ safe_mode = TRUE
    /\ ctl \in {[Control |-> TNC640, Max_Block_Length |-> 4096, faults |-> TRUE],
                [Control |-> TNC640, Max_Block_Length |-> 4096, faults |-> FALSE]}
    /\ InitSession

NextPull ==
    \/ Idle
    \/ connect
    \/ cfg_versions
    \/ cfg_syspar
    \/ cfg_select
    \/ cfg_bufset
    \/ cfg_secure
    \/ cfg_done
    \/ login
    \/ set_system_command
    \/ get_system_parameter
    \/ get_versions
    \/ gv_nc
    \/ gv_plc
    \/ gv_options
    \/ gv_id
    \/ gv_release
    \/ gv_splc
    \/ CallGetDirectoryContent
    \/ send_recive_block
    \/ srb_loop
    \/ gdc_decode
    \/ CallReciveFile
    \/ get_file_info
    \/ rf_request
    \/ rf_loop

SpecPull ==
    /\ InitPull
    /\ [][NextPull]_vars
    /\ WF_vars(srb_loop)
    /\ WF_vars(rf_loop)

---------------------------------------------------------------------------
(* Properties *)

Last(w) == w[Len(w)]

\* this step is a telegram exchange; it is the last entry of wire'
Exchanged == wire' # wire /\ wire' # <<>>

\* the call running in this step returns b
ReturnsBool(b) ==
    IF stack = <<>>
    THEN pc' = "done" /\ result'.k = "bool" /\ result'.v = b
    ELSE pc' = Head(stack) /\ rv'.k = "bool" /\ rv'.v = b

BufferSizes == {256, 512, 1024, 2048, 3072, 4096}

SetMax(S) == CHOOSE x \in S : \A y \in S : y <= x

\* C1: right after an A_LG for level X that is answered with T_OK, X is in
\* active_levels; right after an A_LO for X answered with T_OK, X is not in
\* active_levels; right after an A_LO without target answered with T_OK,
\* active_levels is empty.
C1_LoginLogoutEffect ==
    [][Exchanged /\ Last(wire').response = "T_OK" =>
         LET e == Last(wire') IN
         /\ e.command = "A_LG" => InList(e.payload[1], active_logins')
         /\ e.command = "A_LO" /\ e.payload # <<>> =>
                ~InList(e.payload[1], active_logins')
         /\ e.command = "A_LO" /\ e.payload = <<>> => active_logins' = <<>>]_vars

\* a logout of one level was acknowledged while another level stays held
C1_Witness ==
    /\ pc = "done"
    /\ op = <<"logout", "INSPECT">>
    /\ wire # <<>>
    /\ Last(wire).command = "A_LO"
    /\ Last(wire).response = "T_OK"
    /\ ~InList("INSPECT", active_logins)
    /\ InList("FILETRANSFER", active_logins)

\* C2: active_levels gains a level only in a step in which an A_LG for that
\* level is answered with T_OK, loses a level only in a step in which an A_LO
\* for that level or without target is answered with T_OK, and is unchanged
\* by every other step (a login or logout answered otherwise, any other
\* operation).
C2_LevelsChangeOnlyOnAck ==
    [][LET ackLG == /\ Exchanged
                    /\ Last(wire').command = "A_LG"
                    /\ Last(wire').response = "T_OK"
           ackLO == /\ Exchanged
                    /\ Last(wire').command = "A_LO"
                    /\ Last(wire').response = "T_OK"
       IN
       /\ \A x \in Login :
            InList(x, active_logins') /\ ~InList(x, active_logins) =>
                ackLG /\ Last(wire').payload[1] = x
       /\ \A x \in Login :
            InList(x, active_logins) /\ ~InList(x, active_logins') =>
                ackLO /\ (Last(wire').payload = <<>> \/ Last(wire').payload[1] = x)
       /\ ~ackLG /\ ~ackLO => active_logins' = active_logins]_vars

\* a login was answered with T_ER and the level is not held
C2_Witness ==
    /\ pc = "done"
    /\ op = <<"login", "INSPECT">>
    /\ wire # <<>>
    /\ Last(wire).command = "A_LG"
    /\ Last(wire).response = "T_ER"
    /\ ~InList("INSPECT", active_logins)
    /\ active_logins # <<>>

\* C3: login emits a telegram only if the level is not held and is allowed
\* (in safe mode: INSPECT, FILETRANSFER, MONITOR), and that telegram is A_LG;
\* for a level already held it returns true without a telegram, otherwise for
\* a level not allowed it returns false without a telegram, and in both cases
\* active_levels is unchanged.
C3_LoginGuards ==
    [][pc = "login" =>
         LET held == InList(loc.login, active_logins)
             allowed == IF safe_mode
                        THEN loc.login \in {"INSPECT", "FILETRANSFER", "MONITOR"}
                        ELSE loc.login \in Login
         IN
         /\ held => /\ ReturnsBool(TRUE)
                    /\ wire' = wire
                    /\ active_logins' = active_logins
         /\ ~held /\ ~allowed => /\ ReturnsBool(FALSE)
                                 /\ wire' = wire
                                 /\ active_logins' = active_logins
         /\ wire' # wire => /\ ~held
                            /\ allowed
                            /\ wire' = Append(wire, Last(wire'))
                            /\ Last(wire').command = "A_LG"]_vars

\* in safe mode login(PLCDEBUG) returned false and no telegram was sent
C3_Witness ==
    /\ safe_mode
    /\ pc = "done"
    /\ op = <<"login", "PLCDEBUG">>
    /\ result.k = "bool"
    /\ result.v = FALSE
    /\ wire = <<>>

\* C4: against a control named TNC640 that declares a maximal block length of
\* 4096 and grants every request, a connect that has returned leaves
\* control_variant MILL_NEW, buffer_size 4096, secure_file_send true and
\* active_levels {INSPECT, FILETRANSFER}.
C4_HandshakeScenario ==
    /\ pc = "done"
    /\ op = <<"connect">>
    /\ ctl.Control = TNC640
    /\ ctl.Max_Block_Length = 4096
    /\ ~ctl.faults
    => /\ result = NoneV
       /\ control_type = "MILL_NEW"
       /\ buffer_size = 4096
       /\ secure_file_send = TRUE
       /\ {active_logins[i] : i \in 1..Len(active_logins)} = {"INSPECT", "FILETRANSFER"}
       /\ Len(active_logins) = 2

\* the scenario's connect has returned, after the handshake's twelve telegrams
C4_Witness ==
    /\ pc = "done"
    /\ op = <<"connect">>
    /\ ctl.Control = TNC640
    /\ ctl.Max_Block_Length = 4096
    /\ ~ctl.faults
    /\ Len(wire) = 12
    /\ buffer_size = 4096

\* C5 as claimed: buffer_size is one of the six sizes, and once the declared
\* maximal block length has been read buffer_size is at most that length, for
\* every declared length.
C5_AsClaimed ==
    /\ buffer_size \in BufferSizes
    /\ sys_par # None => buffer_size <= sys_par[1].Max_Block_Length

\* C5, amended: buffer_size is one of the six sizes, and once a declared
\* maximal block length of at least 256 has been read buffer_size is at most
\* that length.
C5_BufferSizeInvariant ==
    /\ buffer_size \in BufferSizes
    /\ sys_par # None /\ sys_par[1].Max_Block_Length >= 256 =>
           buffer_size <= sys_par[1].Max_Block_Length

\* a handshake negotiated 512 with a control that declares 1023
C5_Witness ==
    /\ pc = "done"
    /\ op = <<"connect">>
    /\ sys_par # None
    /\ sys_par[1].Max_Block_Length = 1023
    /\ buffer_size = 512

\* C6: when a connect has returned without raising and the control declares a
\* maximal block length of at least 256, buffer_size is the largest of the six
\* sizes that is at most the declared length.
C6_LargestSupportedSize ==
    /\ pc = "done"
    /\ op = <<"connect">>
    /\ result = NoneV
    /\ ctl.Max_Block_Length >= 256
    => buffer_size = SetMax({b \in BufferSizes : b <= ctl.Max_Block_Length})

\* a handshake completed with a control that declares 4095: 3072 is selected
C6_Witness ==
    /\ pc = "done"
    /\ op = <<"connect">>
    /\ result = NoneV
    /\ ctl.Max_Block_Length = 4095
    /\ buffer_size = 3072

\* C7: an exchange of send_receive that awaits a response returns the payload
\* when the tag is the expected one and the payload is not empty, true when
\* the tag is the expected one and the payload is empty, false when the tag
\* is T_ER, setting last_error to the two payload bytes, and false for any
\* other tag, setting last_error to undefined.
C7_SendReceiveClassifies ==
    [][Exchanged /\ Last(wire').via = "_send_recive" /\ Last(wire').expected # "" =>
         LET e == Last(wire') IN
         /\ e.response = e.expected /\ e.content # <<>> =>
                e.ret.k = "bytes" /\ e.ret.v = e.content
         /\ e.response = e.expected /\ e.content = <<>> =>
                e.ret.k = "bool" /\ e.ret.v = TRUE
         /\ e.response # e.expected /\ e.response = "T_ER" =>
                /\ e.ret.k = "bool" /\ e.ret.v = FALSE
                /\ last_error_code' = <<e.content[1], e.content[2]>>
         /\ e.response # e.expected /\ e.response # "T_ER" =>
                /\ e.ret.k = "bool" /\ e.ret.v = FALSE
                /\ last_error_code' = None]_vars

\* a read was answered with a bad-request tag after an earlier T_ER had set
\* last_error: the read returned false and last_error is undefined again
C7_Witness ==
    /\ pc = "done"
    /\ op = <<"get_machine_parameter">>
    /\ wire # <<>>
    /\ Last(wire).response = "T_BD"
    /\ result.k = "bool"
    /\ result.v = FALSE
    /\ last_error_code = None
    /\ last_failed # None

C9_AsClaimed ==
    /\ pc = "done"
    /\ Len(wire) = 1
    /\ wire[1].response = "T_ER"
    /\ wire[1].content = <<1, 5>>
    => /\ last_error_code = <<1, 5>>
       /\ result.k = "bool"
       /\ result.v = FALSE

\* C10: when the control answers a block read with n >= 0 data packets and
\* then T_FD, get_directory_content returns the n packets, decoded, in the
\* order of arrival; one bare T_OK was sent after each packet; and during
\* every block read nothing is sent after a response that is not a data
\* packet.
C10_BlockRead ==
    /\ op = <<"get_directory_content">> =>
         \A i \in 1..Len(wire) : wire[i].response # "S_DR" => i = Len(wire)
    /\ /\ pc = "done"
       /\ op = <<"get_directory_content">>
       /\ wire # <<>>
       /\ Last(wire).response = "T_FD"
       => /\ result.k = "list"
          /\ Len(result.v) = Len(wire) - 1
          /\ \A i \in 1..(Len(wire) - 1) :
                result.v[i] = decode_file_system_info(wire[i].content, control_type)
          /\ wire[1].command = "R_DR"
          /\ \A i \in 2..Len(wire) :
                wire[i].command = "T_OK" /\ wire[i].payload = <<>>

\* three different data packets, then T_FD: three entries were returned
C10_Witness ==
    /\ pc = "done"
    /\ op = <<"get_directory_content">>
    /\ Len(wire) = 4
    /\ Last(wire).response = "T_FD"
    /\ wire[1].content # wire[2].content
    /\ result.k = "list"
    /\ Len(result.v) = 3

---------------------------------------------------------------------------
(* Download *)

\* the S_FL payloads a download has received, concatenated in arrival order
RECURSIVE ReceivedData(_)
ReceivedData(w) ==
    IF w = <<>> THEN <<>>
    ELSE (IF Head(w).via = "recive_file" /\ Head(w).response = "S_FL"
          THEN Head(w).content ELSE <<>>) \o ReceivedData(Tail(w))

\* a byte string with every 0x00 replaced by CR LF
RECURSIVE NulAsCrLf(_)
NulAsCrLf(s) ==
    IF s = <<>> THEN <<>>
    ELSE IF Len(s) > 16
    THEN NulAsCrLf(SubSeq(s, 1, 16)) \o NulAsCrLf(SubSeq(s, 17, Len(s)))
    ELSE NulAsCrLf(SubSeq(s, 1, Len(s) - 1))
             \o (IF s[Len(s)] = 0 THEN <<13, 10>> ELSE <<s[Len(s)]>>)

\* a download has sent its request R_FL (after the R_FI of get_file_info)
\* and has opened its local file
Downloading ==
    /\ op # <<>>
    /\ op[1] = "recive_file"
    /\ Len(wire) >= 2
    /\ wire[2].command = "R_FL"

\* C14: in a download whose R_FL request carries the mode byte 0x00, the
\* bytes written to the local file contain no 0x00 byte and equal the
\* concatenation of the S_FL payloads received so far with every 0x00
\* replaced by CR LF.
C14_TextDownload ==
    Downloading /\ Last(wire[2].payload) = "0x00" /\ local_file # None =>
        /\ \A i \in 1..Len(local_file[1]) : local_file[1][i] # 0
        /\ local_file[1] = NulAsCrLf(ReceivedData(wire))

\* the payloads 41 00 42 00 and 43 were received in text mode and the
\* download has ended: the file holds 41 0D 0A 42 0D 0A 43
C14_Witness ==
    /\ pc = "done"
    /\ Downloading
    /\ Last(wire[2].payload) = "0x00"
    /\ Len(wire) = 4
    /\ wire[2].content = <<65, 0, 66, 0>>
    /\ wire[3].content = <<67>>
    /\ wire[4].response = "T_FD"
    /\ result.k = "bool"
    /\ result.v = TRUE
    /\ local_file = Some(<<65, 13, 10, 66, 13, 10, 67>>)

\* C15 as claimed: in a download whose R_FL request carries the mode byte
\* MODE_BINARY, the bytes written to the local file equal the concatenation
\* of the S_FL payloads received, unmodified.
C15_AsClaimed ==
    Downloading /\ Last(wire[2].payload) = "MODE_BINARY" /\ local_file # None =>
        local_file[1] = ReceivedData(wire)

\* C16 as claimed: a download returns true only if the first response to
\* R_FL is S_FL; after every S_FL received it sends one bare T_OK and it
\* sends nothing after any other response; once it has ended, it has
\* returned true exactly when the stream began with S_FL and ended with T_FD,
\* and false when it received any other tag.
C16_AsClaimed ==
    Downloading =>
        /\ \A i \in 3..Len(wire) :
              /\ wire[i].command = "T_OK"
              /\ wire[i].payload = <<>>
              /\ wire[i - 1].response = "S_FL"
        /\ \A i \in 2..Len(wire) :
              wire[i].response = "S_FL" => i < Len(wire) \/ pc = "rf_loop"
        /\ pc = "done" =>
              /\ (result.k = "bool" /\ result.v = TRUE)
                     <=> (wire[2].response = "S_FL" /\ Last(wire).response = "T_FD")
              /\ Last(wire).response \notin {"S_FL", "T_FD"} =>
                     result.k = "bool" /\ result.v = FALSE

---------------------------------------------------------------------------
(* Error enumeration and system commands *)

\* the R_RI exchanges of the call, in order
ErrorReads(w) == SelectSeq(w, LAMBDA e : e.command = "R_RI")

C19_WitnessEmpty ==
    /\ pc = "done"
    /\ op = <<"get_error_messages">>
    /\ Len(ErrorReads(wire)) = 1
    /\ Last(wire).content = <<1, 51>>
    /\ result = List(<<>>)

\* the system commands safe mode allows
SafeSysCmds == {"SET_BUF512", "SET_BUF1024", "SET_BUF2048", "SET_BUF3072",
                "SET_BUF4096", "SECURE_FILE_SEND", "SCREENDUMP"}

---------------------------------------------------------------------------
(* Upload *)

\* an upload is in progress or has just ended; op[2] holds its arguments
Uploading == op # <<>> /\ op[1] = "send_file"

\* the payloads of the S_FL telegrams sent, concatenated in the order sent
RECURSIVE SentData(_)
SentData(w) ==
    IF w = <<>> THEN <<>>
    ELSE (IF Head(w).command = "S_FL" THEN Head(w).payload ELSE <<>>)
             \o SentData(Tail(w))

\* C11: during an upload every S_FL telegram follows a C_FL or S_FL that was
\* answered with T_OK and carries between 1 and buffer_size - 10 bytes; the
\* payloads sent so far, concatenated, are the first bytes of the local file;
\* they are the whole file once T_FD is sent or the upload has reported
\* success; and an empty local file produces no S_FL telegram.
C11_UploadDataPhase ==
    Uploading =>
        LET data == op[2].data
            sent == SentData(wire)
        IN /\ \A i \in 1..Len(wire) :
                 wire[i].command = "S_FL" =>
                     /\ i > 1
                     /\ wire[i - 1].command \in {"C_FL", "S_FL"}
                     /\ wire[i - 1].response = "T_OK"
                     /\ Len(wire[i].payload) >= 1
                     /\ Len(wire[i].payload) <= buffer_size - 10
           /\ Len(sent) <= Len(data)
           /\ sent = SubSeq(data, 1, Len(sent))
           /\ (\E i \in 1..Len(wire) : wire[i].command = "T_FD") => sent = data
           /\ pc = "done" /\ result.k = "bool" /\ result.v = TRUE =>
                 /\ sent = data
                 /\ \E i \in 1..Len(wire) :
                       wire[i].command = "C_FL" /\ wire[i].response = "T_OK"

\* a file of 493 bytes went out in chunks of 246, 246 and 1 bytes
C11_Witness ==
    /\ Uploading
    /\ pc = "done"
    /\ result.k = "bool"
    /\ result.v = TRUE
    /\ Len(op[2].data) = 493
    /\ Len(wire) >= 5
    /\ wire[Len(wire) - 3].command = "S_FL"
    /\ Len(wire[Len(wire) - 3].payload) = 246
    /\ Len(wire[Len(wire) - 2].payload) = 246
    /\ Len(wire[Len(wire) - 1].payload) = 1

\* C12: an upload sends T_FD only as its last telegram, right after the C_FL
\* (empty file) or the last chunk was answered with T_OK and the whole file is
\* sent; with secure_file_send it awaits the response and reports success
\* exactly when that is T_OK; without, it awaits no response and reports
\* success.  An upload that has ended with every chunk acknowledged has sent
\* T_FD.
C12_EndOfData ==
    Uploading =>
        /\ \A i \in 1..Len(wire) :
              wire[i].command = "T_FD" =>
                  /\ i = Len(wire)
                  /\ i > 1
                  /\ pc = "done"
                  /\ wire[i - 1].command \in {"C_FL", "S_FL"}
                  /\ wire[i - 1].response = "T_OK"
                  /\ SentData(wire) = op[2].data
                  /\ result.k = "bool"
                  /\ secure_file_send =>
                         /\ wire[i].expected = "T_OK"
                         /\ wire[i].response # "none"
                         /\ result.v <=> wire[i].response = "T_OK"
                  /\ ~secure_file_send =>
                         /\ wire[i].expected = ""
                         /\ wire[i].response = "none"
                         /\ result.v
        /\ /\ pc = "done"
           /\ wire # <<>>
           /\ Last(wire).command \in {"C_FL", "S_FL"}
           => Last(wire).response # "T_OK"

\* without secure_file_send the T_FD was sent blind and the upload succeeded
C12_Witness ==
    /\ Uploading
    /\ pc = "done"
    /\ ~secure_file_send
    /\ wire # <<>>
    /\ Last(wire).command = "T_FD"
    /\ Last(wire).response = "none"
    /\ result.k = "bool"
    /\ result.v = TRUE

\* with secure_file_send the T_FD was refused and the upload failed
C12_WitnessSecure ==
    /\ Uploading
    /\ pc = "done"
    /\ secure_file_send
    /\ wire # <<>>
    /\ Last(wire).command = "T_FD"
    /\ Last(wire).response = "T_ER"
    /\ result.k = "bool"
    /\ result.v = FALSE

\* C13 as claimed: a T_ER in reply to the C_FL, to an S_FL chunk or to the
\* T_FD of an upload is the last exchange of the upload, which has returned
\* false, and last_error holds the two bytes of that T_ER.
C13_AsClaimed ==
    Uploading =>
        \A i \in 1..Len(wire) :
            wire[i].command \in {"C_FL", "S_FL", "T_FD"} /\ wire[i].response = "T_ER" =>
                /\ i = Len(wire)
                /\ pc = "done"
                /\ result.k = "bool"
                /\ result.v = FALSE
                /\ last_error_code = wire[i].content

\* C17 as claimed: when an upload in binary mode has reported success, the
\* control has stored the bytes unchanged, and a download of the same file in
\* binary mode (by the flag or by the extension) has received the stored
\* bytes and reported success, the local file written equals the file sent.
C17_AsClaimed ==
    /\ Downloading
    /\ pc = "done"
    /\ result.k = "bool"
    /\ result.v = TRUE
    /\ remote_file # None
    /\ remote_file[1].done
    /\ remote_file[1].mode = "MODE_BINARY"
    /\ remote_file[1].data = remote_file[1].source
    /\ PathOf(wire[2].payload) = remote_file[1].path
    /\ Last(wire[2].payload) = "MODE_BINARY"
    /\ ReceivedData(wire) = remote_file[1].data
    => local_file = Some(remote_file[1].source)

\* the exchanges of this upload that found the remote file: R_FI for a path
\* that names a file (the paths make_directory asks about end with the
\* separator) answered with S_FI and the information about the file
RemoteFileFound ==
    {i \in 1..Len(wire) : /\ wire[i].command = "R_FI"
                          /\ Last(PathOf(wire[i].payload)) # "\\"
                          /\ wire[i].response = "S_FI"
                          /\ wire[i].content # <<>>}

C21_WitnessDeleted ==
    /\ Uploading
    /\ op[2].override_file
    /\ \E j \in RemoteFileFound :
          /\ Len(wire) >= j + 2
          /\ wire[j + 1].command = "C_FD"
          /\ wire[j + 1].response = "T_OK"
          /\ wire[j + 2].command = "C_FL"

\* with override the delete was refused and the upload raised
C21_WitnessDeleteFailed ==
    /\ Uploading
    /\ op[2].override_file
    /\ pc = "done"
    /\ result.k = "raise"
    /\ RemoteFileFound # {}
    /\ Last(wire).command = "C_FD"
    /\ Last(wire).response = "T_ER"


---------------------------------------------------------------------------
(* Concurrent callers *)

\* C18 as claimed: a block read is not interleaved with the telegrams of
\* another caller: no telegram of the second caller lies between two
\* telegrams of a directory listing of the first.
C18_AsClaimed ==
    op = <<"get_directory_content">> =>
        \A i \in 1..Len(wire) :
            wire[i].via = "caller2" =>
                \/ \A j \in 1..(i - 1) : wire[j].via = "caller2"
                \/ \A j \in (i + 1)..Len(wire) : wire[j].via = "caller2"

---------------------------------------------------------------------------
(* Handshake *)

\* a handshake is in progress or has just ended
Connecting == op = <<"connect">>

\* C22 as claimed: whenever connect() has returned without raising, INSPECT
\* and FILETRANSFER are both in active_levels, whatever the control answered.
C22_AsClaimed ==
    Connecting /\ pc = "done" /\ result.k # "raise" =>
        /\ InList("INSPECT", active_logins)
        /\ InList("FILETRANSFER", active_logins)

\* the largest of the six sizes that is at most the declared length read
Selected == SetMax({b \in BufferSizes : b <= sys_par[1].Max_Block_Length})

\* the set-buffer subcommand of each size from 512 up
SetBufCommand ==
    [b \in BufferSizes \ {256} |->
        CASE b = 512 -> "SET_BUF512"
          [] b = 1024 -> "SET_BUF1024"
          [] b = 2048 -> "SET_BUF2048"
          [] b = 3072 -> "SET_BUF3072"
          [] b = 4096 -> "SET_BUF4096"]

\* the set-buffer telegrams of this call
SetBuffers(w) ==
    {i \in 1..Len(w) : /\ w[i].command = "C_CC"
                       /\ w[i].payload[1] \in {SetBufCommand[b] : b \in DOMAIN SetBufCommand}}

\* the handshake is past the negotiation of the buffer size
Negotiated(w) ==
    \E i \in 1..Len(w) : w[i].command = "C_CC" /\ w[i].payload = <<"SECURE_FILE_SEND">>

\* C23: a handshake sends a set-buffer C_CC exactly when the selected size
\* is at least 512, and it is the subcommand of that size; buffer_size
\* changes only in the step after that C_CC was answered with T_OK, to the
\* selected size; a set-buffer C_CC that is not acknowledged is the last
\* telegram of the handshake, which raises with buffer_size unchanged.
C23_BufferNegotiation ==
    /\ [](Connecting =>
            /\ Cardinality(SetBuffers(wire)) <= 1
            /\ \A i \in SetBuffers(wire) :
                  /\ sys_par # None
                  /\ sys_par[1].Max_Block_Length >= 512
                  /\ wire[i].payload = <<SetBufCommand[Selected]>>
                  /\ wire[i].response # "T_OK" =>
                         /\ i = Len(wire)
                         /\ pc \in {"cfg_bufset", "done"}
                         /\ pc = "done" => result.k = "raise"
            /\ Negotiated(wire) =>
                  (SetBuffers(wire) # {} <=> sys_par[1].Max_Block_Length >= 512))
    /\ [][/\ buffer_size' # buffer_size =>
                /\ Connecting
                /\ pc = "cfg_bufset"
                /\ Last(wire).command = "C_CC"
                /\ Len(wire) \in SetBuffers(wire)
                /\ Last(wire).response = "T_OK"
                /\ buffer_size' = Selected
          /\ /\ Connecting
             /\ pc = "cfg_bufset"
             /\ Last(wire).response # "T_OK"
             => /\ buffer_size' = buffer_size
                /\ wire' = wire
                /\ pc' = "done"
                /\ result'.k = "raise"]_vars

\* a control that declares 1024 refused SET_BUF1024: the handshake raised
\* and buffer_size is still 256
C23_Witness ==
    /\ Connecting
    /\ pc = "done"
    /\ result.k = "raise"
    /\ sys_par # None
    /\ sys_par[1].Max_Block_Length = 1024
    /\ Last(wire).command = "C_CC"
    /\ Last(wire).payload = <<"SET_BUF1024">>
    /\ Last(wire).response = "T_ER"
    /\ buffer_size = 256

\* a control that declares 256 was sent no set-buffer telegram
C23_WitnessSilent ==
    /\ Connecting
    /\ pc = "done"
    /\ result = NoneV
    /\ ctl.Max_Block_Length = 256
    /\ buffer_size = 256
    /\ SetBuffers(wire) = {}
    /\ Negotiated(wire)

\* the SECURE_FILE_SEND telegrams of this call
SecureSends(w) ==
    {i \in 1..Len(w) : w[i].command = "C_CC" /\ w[i].payload = <<"SECURE_FILE_SEND">>}

\* C24: a completed handshake has sent C_CC SECURE_FILE_SEND once, and
\* secure_file_send is true exactly when it was answered with T_OK; whatever
\* the answer, the handshake does not raise after it and goes on to the login
\* for FILETRANSFER, whose A_LG is the only telegram that follows (none
\* follows when the level is already held).
C24_SecureFileSend ==
    Connecting =>
        /\ pc = "done" /\ result = NoneV => Cardinality(SecureSends(wire)) = 1
        /\ \A i \in SecureSends(wire) :
              /\ pc \in {"cfg_secure", "login", "cfg_done", "done"}
              /\ pc \in {"login", "cfg_done", "done"} =>
                     (secure_file_send <=> wire[i].response = "T_OK")
              /\ pc = "done" => result = NoneV
              /\ i < Len(wire) =>
                     /\ i + 1 = Len(wire)
                     /\ wire[i + 1].command = "A_LG"
                     /\ wire[i + 1].payload = <<"FILETRANSFER", "NUL">>
              /\ pc \in {"cfg_done", "done"} /\ i = Len(wire) =>
                     InList("FILETRANSFER", active_logins)

\* SECURE_FILE_SEND was refused, the handshake went on to log in for
\* FILETRANSFER and completed with secure_file_send false
C24_Witness ==
    /\ Connecting
    /\ pc = "done"
    /\ result = NoneV
    /\ ~secure_file_send
    /\ Len(wire) >= 2
    /\ wire[Len(wire) - 1].command = "C_CC"
    /\ wire[Len(wire) - 1].payload = <<"SECURE_FILE_SEND">>
    /\ wire[Len(wire) - 1].response = "T_ER"
    /\ Last(wire).command = "A_LG"
    /\ Last(wire).response = "T_OK"
    /\ InList("FILETRANSFER", active_logins)

\* the place of a telegram in the sequence of the handshake (0: not part of it)
Phase(e) ==
    CASE e.command = "A_LG" /\ e.payload = <<"INSPECT", "NUL">> -> 1
      [] e.command = "R_VR" -> 2
      [] e.command = "R_PR" -> 3
      [] e.command = "C_CC" /\ e.payload # <<"SECURE_FILE_SEND">> -> 4
      [] e.command = "C_CC" /\ e.payload = <<"SECURE_FILE_SEND">> -> 5
      [] e.command = "A_LG" /\ e.payload = <<"FILETRANSFER", "NUL">> -> 6
      [] OTHER -> 0

\* the places of the telegrams of this call, in the order sent
Phases(w) == [i \in 1..Len(w) |-> Phase(w[i])]

\* C25 as claimed: the telegrams of a handshake are, in this order,
\* A_LG(INSPECT), the R_VR reads, R_PR, the set-buffer C_CC when the selected
\* size is at least 512, C_CC SECURE_FILE_SEND and A_LG(FILETRANSFER): what
\* was sent so far is the beginning of that sequence, no C_CC is sent before
\* the R_PR of the handshake was answered, and a handshake that has
\* completed has sent A_LG(FILETRANSFER) last.
C25_AsClaimed ==
    Connecting =>
        /\ \A i \in 1..Len(wire) :
              /\ Phase(wire[i]) # 0
              /\ i = 1 => Phase(wire[i]) = 1
              /\ i > 1 =>
                     \/ Phase(wire[i]) = 2 /\ Phase(wire[i - 1]) \in {1, 2}
                     \/ Phase(wire[i]) = 3 /\ Phase(wire[i - 1]) = 2
                     \/ Phase(wire[i]) = 4 /\ Phase(wire[i - 1]) = 3
                     \/ Phase(wire[i]) = 5 /\ Phase(wire[i - 1]) \in {3, 4}
                     \/ Phase(wire[i]) = 6 /\ Phase(wire[i - 1]) = 5
              /\ Phase(wire[i]) \in {4, 5} =>
                     \E j \in 1..(i - 1) :
                         wire[j].command = "R_PR" /\ wire[j].response = "S_PR"
        /\ pc = "done" /\ result = NoneV => wire # <<>> /\ Phase(Last(wire)) = 6

---------------------------------------------------------------------------
(* The dispatch primitives and T_ER *)

\* C26 as claimed: an exchange of send_receive_ack returns true exactly when
\* the response tag is T_OK, and when the response is T_ER it returns false
\* and last_error holds the two bytes of the T_ER payload.
C26_AsClaimed ==
    [][Exchanged /\ Last(wire').via = "_send_recive_ack" =>
         LET e == Last(wire') IN
         /\ e.ret.k = "bool"
         /\ e.ret.v <=> e.response = "T_OK"
         /\ e.response = "T_ER" => ~e.ret.v /\ last_error_code' = e.content]_vars

\* this step is an exchange of a block read: its first, or a later one
BlockExchanged == Exchanged /\ Last(wire').via = "_send_recive_block"

FirstOfBlock(e) == e.command # "T_OK"

\* C27 as claimed: when the first response of a block read is T_ER, last_error
\* holds the two bytes of its payload, the empty list is returned and no T_OK
\* is sent.
C27_AsClaimed ==
    [][BlockExchanged /\ FirstOfBlock(Last(wire')) /\ Last(wire').response = "T_ER" =>
         /\ last_error_code' = Last(wire').content
         /\ pc' # "srb_loop"
         /\ rv' = List(<<>>)]_vars

\* C28 as claimed: a response of a block read whose tag is neither the
\* expected one nor T_FD (nor the T_ER in first place, which C27 is about)
\* makes the call raise, in first place as well as after data packets.
C28_AsClaimed ==
    [][/\ BlockExchanged
       /\ Last(wire').response \notin {Last(wire').expected, "T_FD"}
       /\ ~(FirstOfBlock(Last(wire')) /\ Last(wire').response = "T_ER")
       => /\ pc' = "done"
          /\ result'.k = "raise"]_vars

---------------------------------------------------------------------------
(* Access levels of the status readers and the keyboard operations *)

\* C29 as claimed: whenever a status reader sends an R_RI telegram, DNC is in
\* active_levels.
C29_AsClaimed ==
    [][Exchanged /\ Last(wire').command = "R_RI" => InList("DNC", active_logins)]_vars

\* a keyboard operation is in progress or has just ended
Keying == op # <<>> /\ op[1] \in {"set_keyboard_access", "send_key_code"}

\* C30: C_LK and C_EK are sent only in states where MONITOR is in
\* active_levels; when the login for MONITOR of a keyboard operation is not
\* acknowledged, that A_LG is its last telegram and the operation returns
\* false.
C30_KeyboardNeedsMonitor ==
    /\ [][Exchanged /\ Last(wire').command \in {"C_LK", "C_EK"} =>
             InList("MONITOR", active_logins)]_vars
    /\ [](Keying =>
            \A i \in 1..Len(wire) :
                /\ wire[i].command \in {"C_LK", "C_EK"} =>
                       /\ InList("MONITOR", active_logins)
                       /\ wire[i].command = (IF op[1] = "set_keyboard_access"
                                             THEN "C_LK" ELSE "C_EK")
                /\ wire[i].command = "A_LG" /\ wire[i].response # "T_OK" =>
                       /\ i = Len(wire)
                       /\ ~InList("MONITOR", active_logins)
                       /\ pc = "done" => result.k = "bool" /\ result.v = FALSE)

\* the control refused the login for MONITOR: the keyboard was not locked and
\* set_keyboard_access(False) returned false
C30_Witness ==
    /\ op = <<"set_keyboard_access", FALSE>>
    /\ pc = "done"
    /\ result.k = "bool"
    /\ result.v = FALSE
    /\ Len(wire) = 1
    /\ wire[1].command = "A_LG"
    /\ wire[1].payload = <<"MONITOR", "NUL">>
    /\ wire[1].response = "T_ER"

\* the login for MONITOR was granted and the key code sent
C30_WitnessSent ==
    /\ op = <<"send_key_code", 300>>
    /\ pc = "done"
    /\ InList("MONITOR", active_logins)
    /\ Last(wire).command = "C_EK"
    /\ Last(wire).payload = <<1, 44>>
    /\ result.k = "bool"
    /\ result.v = TRUE

---------------------------------------------------------------------------
(* Caches of the versions and the system parameters *)

\* the call running in this step returns v
ReturnsValue(v) ==
    IF stack = <<>>
    THEN pc' = "done" /\ result' = v
    ELSE pc' = Head(stack) /\ rv' = v

\* C31: get_versions and get_system_parameter with a populated cache and
\* force false send nothing and return the cached record, which stays as it
\* is; with force true, or an empty cache, they query the control (R_VR for
\* the control name, R_PR); an R_PR that is not answered with S_PR and a read
\* of the control name that fails leave the cache as it was, the latter
\* raising; and the caches change in no other step than the last read of
\* get_versions and an R_PR answered with S_PR.
C31_CacheReadThrough ==
    [][/\ pc = "get_system_parameter" =>
              IF sys_par # None /\ ~loc.force
              THEN wire' = wire /\ sys_par' = sys_par /\ ReturnsValue(Dict(sys_par[1]))
              ELSE /\ Exchanged
                   /\ Last(wire').command = "R_PR"
                   /\ Last(wire').response # "S_PR" =>
                          sys_par' = sys_par /\ ReturnsValue(Bool(FALSE))
                   /\ Last(wire').response = "S_PR" /\ Last(wire').content # <<>> =>
                          /\ sys_par' = Some(decode_system_parameters(Last(wire').content))
                          /\ ReturnsValue(Dict(sys_par'[1]))
       /\ pc = "get_versions" =>
              IF versions # None /\ ~loc.force
              THEN wire' = wire /\ versions' = versions /\ ReturnsValue(Dict(versions[1]))
              ELSE /\ Exchanged
                   /\ Last(wire').command = "R_VR"
                   /\ Last(wire').payload = <<"CONTROL">>
                   /\ versions' = versions
                   /\ Last(wire').response # "S_VR" =>
                          pc' = "done" /\ result'.k = "raise"
       /\ sys_par' # sys_par => pc = "get_system_parameter"
       /\ versions' # versions => pc = "gv_splc"]_vars

\* a forced read of the system parameters was refused: the call returned
\* false and the record cached by the handshake is still there
C31_Witness ==
    /\ op = <<"get_system_parameter", TRUE>>
    /\ pc = "done"
    /\ result = Bool(FALSE)
    /\ Len(wire) = 1
    /\ wire[1].command = "R_PR"
    /\ wire[1].response = "T_ER"
    /\ sys_par # None

\* get_versions without force returned the cached record and sent nothing
C31_WitnessCached ==
    /\ op = <<"get_versions", FALSE>>
    /\ pc = "done"
    /\ wire = <<>>
    /\ versions # None
    /\ result = Dict(versions[1])

\* C32 as claimed: every handshake that completes, also one after
\* disconnect() and connect(), has read the versions and the system
\* parameters from the control: R_VR and R_PR are among its telegrams.
C32_AsClaimed ==
    Connecting /\ pc = "done" /\ result = NoneV =>
        /\ \E i \in 1..Len(wire) :
              wire[i].command = "R_VR" /\ wire[i].payload = <<"CONTROL">>
        /\ \E i \in 1..Len(wire) : wire[i].command = "R_PR"

---------------------------------------------------------------------------
(* Access levels: the client's list and the control's record *)

ActiveLevels == {active_logins[i] : i \in 1..Len(active_logins)}

\* C33 as claimed: after every exchange the control has acknowledged, the
\* levels in active_levels are the levels the control has granted on the
\* current connection and not taken back.
C33_AsClaimed ==
    [][Exchanged /\ Last(wire').response = "T_OK" =>
         ActiveLevels' = control_levels']_vars

---------------------------------------------------------------------------
(* Version records *)

\* the control answered the R_VR read for this selector of the call with S_VR
VersionAnswered(w, selector) ==
    \E i \in 1..Len(w) :
        /\ w[i].command = "R_VR"
        /\ w[i].payload = <<selector>>
        /\ w[i].response = "S_VR"

\* C34 as claimed: whenever get_versions stores a record, the record of a
\* legacy mill that gave no S_VR answer for RELEASE_TYPE holds Release_Type
\* "not supported", also when the record is the one of the first handshake,
\* and a record read without an S_VR answer for SPLC_VERSION holds
\* SPLC_Version "not supported".
C34_AsClaimed ==
    [][versions' # versions =>
         LET record == versions'[1] IN
         /\ /\ ControlTypeOf(record["Control"]) = "MILL_OLD"
            /\ ~VersionAnswered(wire', "RELEASE_TYPE")
            => /\ "Release_Type" \in DOMAIN record
               /\ record["Release_Type"] = NotSupported
         /\ ~VersionAnswered(wire', "SPLC_VERSION") =>
                record["SPLC_Version"] = NotSupported]_vars

---------------------------------------------------------------------------
(* Reads of the PLC memory *)

ReadingPlc == Len(op) = 4 /\ op[1] = "read_plc_memory"

IsMemoryRead(e) == e.command = "R_MB"

\* the R_MB telegrams of the call so far
MemoryReads == SelectSeq(wire, IsMemoryRead)

\* C35: a read of PLC memory of a type other than STRING, with region start
\* offset O, element size S and user address A, sends R_MB with the big-endian
\* address O + A x S; a STRING read of n elements from A sends exactly n
\* requests, the i-th (from 0) addressing element A + i.
C35_AsClaimed ==
    ReadingPlc /\ op[3] \in MemoryTypes =>
        LET m == MemoryLayout(op[3])
            reads == MemoryReads
        IN IF op[3] = "STRING"
           THEN /\ \A i \in 1..Len(reads) :
                       SubSeq(reads[i].payload, 1, 4) =
                           BE32(m.start_address + (op[2] + (i - 1)) * m.mem_byte_count)
                /\ (pc = "done" /\ result.k = "list" => Len(reads) = op[4])
           ELSE \A i \in 1..Len(reads) :
                    SubSeq(reads[i].payload, 1, 4) =
                        BE32(AddressScaled(m.start_address, op[2], m.mem_byte_count))

\* the call passes the two checks of count
CountAccepted ==
    /\ ReadingPlc
    /\ op[3] \in MemoryTypes
    /\ op[4] * 4 <= MemoryLayout(op[3]).max_count4
    /\ op[4] <= 255

\* C39: read_plc_memory sends no R_MB and raises when count is above 255 or
\* above the maximum of the memory type; in every call that passes these
\* checks, the count field of a request of a type other than STRING, count x
\* element size, is at most 255, so packing it never fails.
C39_AsClaimed ==
    /\ ReadingPlc /\ op[3] \in MemoryTypes /\ ~CountAccepted =>
           /\ MemoryReads = <<>>
           /\ (pc = "done" => result.k = "raise")
    /\ CountAccepted /\ op[3] # "STRING" =>
           /\ op[4] * MemoryLayout(op[3]).mem_byte_count <= 255
           /\ (pc = "done" => result # Exc("struct.error"))
           /\ \A i \in 1..Len(MemoryReads) :
                  MemoryReads[i].payload[5] = op[4] * MemoryLayout(op[3]).mem_byte_count

---------------------------------------------------------------------------
(* Protocol errors while the error messages are read *)

\* the last exchange of get_error_messages was an R_RI answered with a tag
\* that is neither S_RI nor T_ER
ErrorReadUnexpected ==
    /\ op = <<"get_error_messages">>
    /\ wire # <<>>
    /\ Last(wire).command = "R_RI"
    /\ Last(wire).response \notin {"S_RI", "T_ER"}

\* C36: when the control answers R_RI FIRST_ERROR or NEXT_ERROR with a tag
\* that is neither S_RI nor T_ER, last_error is cleared and get_error_messages
\* returns a value (False, or the messages read so far) and does not raise.
C36_AsClaimed ==
    ErrorReadUnexpected =>
        /\ last_error_code = None
        /\ pc = "done"
        /\ result.k \in {"bool", "list"}

---------------------------------------------------------------------------
(* The local file handle of a transfer *)

Transferring == Len(op) >= 1 /\ op[1] \in {"send_file", "recive_file"}

\* C37: the local file that send_file or recive_file opens is closed on every
\* way out of the call: no call has returned or raised, and none is about to
\* start, while the handle is open; it is open only inside the data loops of
\* the two transfers.
C37_HandleReleased ==
    /\ pc \in {"idle", "done"} => ~file_open
    /\ file_open => Transferring /\ pc \in {"rf_loop", "sf_chunk"}

\* a download that failed in mid-stream has returned False
C37_Witness ==
    /\ pc = "done"
    /\ op[1] = "recive_file"
    /\ result = Bool(FALSE)
    /\ Last(wire).command = "T_OK"
    /\ Last(wire).response \in {"T_ER", "T_BD"}
    /\ local_file # None

\* an upload whose chunk was refused has returned False
C37_WitnessUpload ==
    /\ pc = "done"
    /\ op[1] = "send_file"
    /\ result = Bool(FALSE)
    /\ Last(wire).command = "S_FL"
    /\ Last(wire).response \in {"T_ER", "T_BD"}

\* an upload whose end-of-data exchange failed has returned False
C37_WitnessEnd ==
    /\ pc = "done"
    /\ op[1] = "send_file"
    /\ result = Bool(FALSE)
    /\ Last(wire).command = "T_FD"

---------------------------------------------------------------------------
(* The list of the levels held *)

\* C38: in every reachable state active_levels holds no level twice, and every
\* level in it is one of the levels that safe mode, fixed at construction,
\* allows (INSPECT, FILETRANSFER and MONITOR in safe mode, every level
\* otherwise), whatever logins, logouts, connects, disconnects and other
\* operations have run.
C38_LevelsUniqueAndAllowed ==
    /\ \A i, j \in 1..Len(active_logins) :
           i # j => active_logins[i] # active_logins[j]
    /\ \A i \in 1..Len(active_logins) :
           active_logins[i] \in
               (IF safe_mode THEN {"INSPECT", "FILETRANSFER", "MONITOR"} ELSE Login)

\* in safe mode, with two levels held, a login for a level that is not
\* allowed has returned
C38_Witness ==
    /\ safe_mode
    /\ Len(active_logins) >= 2
    /\ pc = "done"
    /\ op = <<"login", "PLCDEBUG">>

\* a login for a level already held has returned true without a telegram
C38_WitnessHeld ==
    /\ pc = "done"
    /\ op = <<"login", "INSPECT">>
    /\ InList("INSPECT", active_logins)
    /\ wire = <<>>
    /\ result = Bool(TRUE)

---------------------------------------------------------------------------
(* The pull loops *)

InPullLoop == pc \in {"srb_loop", "rf_loop"}

\* the data tag the loop the call is in waits for
DataTag == IF pc = "srb_loop" THEN loc.expected ELSE "S_FL"

\* the bare T_OK telegrams of w, and its responses that carry the tag
PullsSent(w) == Cardinality({i \in 1..Len(w) : w[i].command = "T_OK"})
DataReceived(w, tag) == Cardinality({i \in 1..Len(w) : w[i].response = tag})

\* a step of a pull loop: one bare T_OK is sent; the loop goes on when the
\* answer carries the data tag and is left at the first answer that does
\* not, and then as many pulls were sent as data packets were received
PullStep ==
    InPullLoop =>
        /\ wire' = Append(wire, Last(wire'))
        /\ Last(wire').command = "T_OK"
        /\ IF Last(wire').response = DataTag
           THEN pc' = pc
           ELSE /\ pc' # pc
                /\ PullsSent(wire') = DataReceived(wire', DataTag)

\* C40: _send_recive_block and the pull loop of recive_file stop at the first
\* response whose tag is not the data tag they wait for; as the control
\* sends a tag other than the data tag after finitely many packets, a call
\* that is in a loop eventually leaves it, and when it does the number of
\* T_OK pulls sent equals the number of data packets received (inside the
\* loop one packet more than pulls has arrived).
C40_TransfersTerminate ==
    /\ [](InPullLoop => PullsSent(wire) + 1 = DataReceived(wire, DataTag))
    /\ [][PullStep]_vars
    /\ (pc = "srb_loop" ~> pc # "srb_loop")
    /\ (pc = "rf_loop" ~> pc # "rf_loop")

\* a download has left its loop after MaxPackets packets and as many pulls
C40_Witness ==
    /\ pc = "done"
    /\ op[1] = "recive_file"
    /\ PullsSent(wire) = MaxPackets
    /\ DataReceived(wire, "S_FL") = MaxPackets
    /\ Last(wire).command = "T_OK"
    /\ Last(wire).response # "S_FL"

\* a block read has left its loop after two packets and two pulls
C40_WitnessBlock ==
    /\ pc = "gdc_decode"
    /\ PullsSent(wire) = 2
    /\ DataReceived(wire, "S_DR") = 2

====
